---- MODULE Spec2Model ----
(***************************************************************************)
(* Verification model of slate-benchmark.                                  *)
(*                                                                         *)
(* Three components are modelled, each with its own specification:         *)
(*   SpecPerfect  the fixed-size perfect binary hash tree on MemKVS        *)
(*                (rust/src/hashtree/binary.rs, rust/src/lib.rs)           *)
(*   SpecAppend   the appendable file-backed binary hash tree              *)
(*                (src/hashtree/binary.rs)                                 *)
(*   SpecLog      the benchmark's use of the append-only log: ensure,      *)
(*                prepare, run_query and the prove loop                    *)
(*                (rust/src/slate.rs, rust/src/main.rs); SpecLogFair is    *)
(*                SpecLog with the prove loop running to its end           *)
(***************************************************************************)
EXTENDS Integers, Sequences, FiniteSets, TLC

(***************************************************************************)
(* 64-bit unsigned integers.  A u64 is kept as its eight base-256 digits,  *)
(* most significant first, so that wrapping arithmetic stays exact.        *)
(***************************************************************************)
Pow2(n) == 2 ^ n

\* the u64 holding the small natural n (n < 2^31)
U64(n) ==
  <<0, 0, 0, 0, (n \div 16777216) % 256, (n \div 65536) % 256, (n \div 256) % 256, n % 256>>

\* the digit of significance k (0 = least significant), 0 beyond the width
Digit(x, k) == IF k \in 0..7 THEN x[8 - k] ELSE 0

XorByte(a, b) ==
  LET bit(k) == ((a \div Pow2(k)) + (b \div Pow2(k))) % 2
  IN  bit(0) + 2 * bit(1) + 4 * bit(2) + 8 * bit(3)
      + 16 * bit(4) + 32 * bit(5) + 64 * bit(6) + 128 * bit(7)

\* x ^ y
Xor(x, y) ==
  <<XorByte(x[1], y[1]), XorByte(x[2], y[2]), XorByte(x[3], y[3]), XorByte(x[4], y[4]),
    XorByte(x[5], y[5]), XorByte(x[6], y[6]), XorByte(x[7], y[7]), XorByte(x[8], y[8])>>

\* x >> s
Shr(x, s) ==
  LET q == s \div 8
      r == s % 8
      d(k) == ((Digit(x, k + q) \div Pow2(r))
               + (Digit(x, k + q + 1) % Pow2(r)) * Pow2(8 - r)) % 256
  IN  <<d(7), d(6), d(5), d(4), d(3), d(2), d(1), d(0)>>

\* column k of the schoolbook product x * y
RECURSIVE MulColumn(_, _, _, _)
MulColumn(x, y, k, a) ==
  IF a > k THEN 0 ELSE Digit(x, a) * Digit(y, k - a) + MulColumn(x, y, k, a + 1)

\* digits k.. of the product, least significant first, given the carry into column k
RECURSIVE MulDigits(_, _, _, _)
MulDigits(x, y, k, carry) ==
  IF k > 7 THEN <<>>
  ELSE LET sum == MulColumn(x, y, k, 0) + carry
       IN  <<sum % 256>> \o MulDigits(x, y, k + 1, sum \div 256)

\* x.wrapping_mul(y): schoolbook product truncated to 64 bits
WrappingMul(x, y) ==
  LET p == MulDigits(x, y, 0, 0)
  IN  <<p[8], p[7], p[6], p[5], p[4], p[3], p[2], p[1]>>

\* 0xbf58476d1ce4e5b9
MixMul1 == <<191, 88, 71, 109, 28, 228, 229, 185>>
\* 0x94d049bb133111eb
MixMul2 == <<148, 208, 73, 187, 19, 49, 17, 235>>

splitmix64(x) ==
  LET z1 == WrappingMul(Xor(x, Shr(x, 30)), MixMul1)
      z2 == WrappingMul(Xor(z1, Shr(z1, 27)), MixMul2)
  IN  Xor(z2, Shr(z2, 31))

\* u64::to_le_bytes: the eight bytes, least significant first
to_le_bytes(x) == <<x[8], x[7], x[6], x[5], x[4], x[3], x[2], x[1]>>

\* u64::from_le_bytes
from_le_bytes(b) == <<b[8], b[7], b[6], b[5], b[4], b[3], b[2], b[1]>>

(***************************************************************************)
(* Shared value shapes.                                                    *)
(***************************************************************************)
None == [some |-> FALSE]
Some(v) == [some |-> TRUE, value |-> v]

Ok(v) == [ok |-> TRUE, value |-> v]
Err(e) == [ok |-> FALSE, error |-> e]

\* a finite map (HashMap) as a function; insert replaces an existing key
EmptyMap == <<>>
MapInsert(m, key, v) == [x \in (DOMAIN m) \cup {key} |-> IF x = key THEN v ELSE m[x]]
MapGet(m, key) == IF key \in DOMAIN m THEN Some(m[key]) ELSE None
MapLen(m) == Cardinality(DOMAIN m)

\* blake3, kept structural: two digests are equal exactly when their inputs are
blake3_hash(data) == <<"blake3", data>>

\* the benchmark's payload for index i: splitmix64(i).to_le_bytes()
values(i) == to_le_bytes(splitmix64(U64(i)))

(***************************************************************************)
(* Bounds of the model.                                                    *)
(***************************************************************************)
\* largest height given to BinaryHashTree::create_on_memory
MaxHeight == 8
\* most append calls made on the appendable tree
MaxAppends == 5
\* largest Case::max_n the logs are prepared to
MaxN == 8
\* most leaves at which the alternate log differs from the log of `cut`
MaxDiffs == 2
\* largest cache level given to set_cache_level (main runs the levels 0..=3)
MaxLevel == 3
\* largest n given to SeqFileCUT::prepare and SeqFileCUT::append
MaxSeq == 4
\* most iterations of the leveldb append benchmark that are followed
MaxBench == 64
\* largest Case::max_n a gauge is built for
MaxGaugeN == 32
\* largest Case::max_n of the FileQueryDriver
MaxOpenN == 5
\* largest n given to ZipfDistribution::new
MaxZipfN == 4
\* most calls of ZipfDistribution::next_u64 that are followed
MaxDraws == 4
\* largest limit create_cache is called with beside the limits of the cache levels
MaxCacheLimit == 17
\* most bytes of data in a leaf handed to Serializable::write
MaxDataLen == 3

VARIABLES
  kvs,              \* MemKVS::kvs, the HashMap<Position, Node> of the perfect tree
  pt_pc,            \* where create_on_memory stands: start, write, link, created, opened
  pt_h,             \* the height h given to create
  pt_root,          \* position_root and position_root2 of create
  pt_current,       \* create_for_level's `current`
  pt_level,         \* create_for_level's `level` of the frame that is running
  pt_k,             \* the loop index k of that frame
  pt_nodes,         \* the `nodes` vector of every create_for_level frame, by level + 1
  tree,             \* the Result of BinaryHashTree::new: root, height, cache, or the error
  bt_file,          \* the appendable tree's file: offset -> the record written there
  bt_flen,          \* the length of that file in bytes
  bt_cursor,        \* the file's cursor
  bt_size,          \* BinaryHashTree::size
  bt_root_position, \* BinaryHashTree::root_position
  bt_cache,         \* BinaryHashTree::cache: cache, limit, min_level
  bt_calls,         \* the number of append calls made so far
  bt_appended,      \* the data of the appends that returned Ok, in order
  bt_ids,           \* the ids those appends returned, in order
  bt_failed,        \* an append has returned an I/O error
  bt_reopened,      \* the tree has been dropped and opened again
  bt_last,          \* the last call: op, ok, val, and the size before it
  log_N,            \* Case::max_n, the size both logs are prepared to
  log_alt,          \* the indices at which the alternate log's payload differs
  log_a,            \* the log of `cut`: its entries, in append order
  log_b,            \* the log of the alternate
  log_last,         \* the last call on a log: op, which log, its argument and result
  prove_pc,         \* SlateCUT::prove: idle, loop, done
  prove_paths,      \* auth_path1 and auth_path2
  prove_iter,       \* the number of AuthPath::prove calls made by the loop
  prove_div,        \* the Divergent set of the last iteration
  prove_sel,        \* the (min_i, min_j) of the last iteration, if any
  prove_prev,       \* the (min_i, min_j) of the iteration before it, if any
  prove_result,     \* the Option the loop broke with
  sf_pc,            \* the SeqFileCUT: idle, open, panicked, dropped
  sf_file,          \* the sequential file: its 8-byte records, in file order
  sf_cursor,        \* the cursor of SeqFileCUT::file, in records
  get_last,         \* the last GetCUT call: cut, op, i, level, the value read, outcome
  ldb,              \* bench_level_db: the leveldb database, key -> value
  ldb_pc,           \* bench_level_db: idle, iter (between iterations), inodes, panicked
  ldb_i,            \* bench_level_db: the counter i
  ldb_j,            \* bench_level_db: how many inodes of generation i have been stored
  ldb_right,        \* bench_level_db: right_hash
  gauge_n,          \* Case::max_n of the case whose gauge is built
  gauge_scale,      \* Case::scale
  gauge_pc,         \* Case::gauge: idle, new, done, panicked
  gauge_out,        \* the Vec<u64> Case::gauge returned
  fq_N,             \* FileQueryDriver: Case::max_n
  fq_log,           \* the entries held by the file slate-file-{max_n}.db
  fq_tail_bad,      \* the checksum of the file's tail record fails
  fq_db,            \* the Slate on the file is open
  fq_crashed,       \* the tail record has been corrupted once
  fq_last,          \* the last call of the driver: op and its result
  zipf_state,       \* ZipfDistribution::state
  zipf_n,           \* ZipfDistribution::n
  zipf_s,           \* the shape s the cdf was built with
  zipf_calls,       \* the number of next_u64 calls made
  zipf_last,        \* the value the last next_u64 returned, if any
  ix_index,         \* the serial index given to index_to_level_position, as a u64
  ix_out,           \* what index_to_level_position returned for it, if it has run
  ch_cache,         \* the Cache driven by read_node and write_node alone
  ch_last,          \* the last call on it: op, the node, the cache before the call
  sr_item,          \* the Serializable handed to write: its type and the value
  sr_out,           \* the bytes write put into the sink and the size it returned, once it has run
  pb_max_n,         \* prove benchmark: Case::max_n
  pb_min_trials,    \* prove benchmark: Case::min_trials
  pb_gauge,         \* prove benchmark: the points still being measured
  pb_time_complexity,\* prove benchmark: XYReport::data_set, each sample with the point it was measured at
  pb_trials,        \* prove benchmark: the trials carried out
  pb_removed,       \* prove benchmark: the points the last trial removed from the gauge
  pb_pc             \* prove benchmark: "idle", "running" or "done"

pt_vars == <<kvs, pt_pc, pt_h, pt_root, pt_current, pt_level, pt_k, pt_nodes, tree>>

bt_vars == <<bt_file, bt_flen, bt_cursor, bt_size, bt_root_position, bt_cache,
             bt_calls, bt_appended, bt_ids, bt_failed, bt_reopened, bt_last>>

log_vars == <<log_N, log_alt, log_a, log_b, log_last, prove_pc, prove_paths, prove_iter,
              prove_div, prove_sel, prove_prev, prove_result>>

get_vars == <<sf_pc, sf_file, sf_cursor, get_last>>

ldb_vars == <<ldb, ldb_pc, ldb_i, ldb_j, ldb_right>>

\* the variables added to the three components above
gauge_vars == <<gauge_n, gauge_scale, gauge_pc, gauge_out>>

fq_vars == <<fq_N, fq_log, fq_tail_bad, fq_db, fq_crashed, fq_last>>

zipf_vars == <<zipf_state, zipf_n, zipf_s, zipf_calls, zipf_last>>

ix_vars == <<ix_index, ix_out>>

ch_vars == <<ch_cache, ch_last>>

sr_vars == <<sr_item, sr_out>>

pb_vars == <<pb_max_n, pb_min_trials, pb_gauge, pb_time_complexity, pb_trials, pb_removed, pb_pc>>

ext_vars == <<get_vars, ldb_vars, gauge_vars, fq_vars, zipf_vars, ix_vars, ch_vars, sr_vars, pb_vars>>

vars == <<pt_vars, bt_vars, log_vars, ext_vars>>

\* no SeqFileCUT has been created and no GetCUT call made
GetIdle ==
  /\ sf_pc = "idle"
  /\ sf_file = <<>>
  /\ sf_cursor = 0
  /\ get_last = [cut |-> "none"]

\* bench_level_db has not been started
LdbIdle ==
  /\ ldb = <<>>
  /\ ldb_pc = "idle"
  /\ ldb_i = 0
  /\ ldb_j = 0
  /\ ldb_right = <<>>

\* no log has been created
LogIdle ==
  /\ log_N = 0
  /\ log_alt = {}
  /\ log_a = <<>>
  /\ log_b = <<>>
  /\ log_last = [op |-> "none"]
  /\ prove_pc = "idle"
  /\ prove_paths = <<>>
  /\ prove_iter = 0
  /\ prove_div = {}
  /\ prove_sel = [some |-> FALSE]
  /\ prove_prev = [some |-> FALSE]
  /\ prove_result = [some |-> FALSE]

\* the perfect tree before create_on_memory has been called
PerfectIdle ==
  /\ kvs = <<>>
  /\ pt_pc = "idle"
  /\ pt_h = 0
  /\ pt_root = <<0, 0>>
  /\ pt_current = 0
  /\ pt_level = 0
  /\ pt_k = 0
  /\ pt_nodes = <<>>
  /\ tree = [ok |-> FALSE, error |-> "not opened"]

\* no appendable tree has been opened
AppendIdle ==
  /\ bt_file = <<>>
  /\ bt_flen = 0
  /\ bt_cursor = 0
  /\ bt_size = 0
  /\ bt_root_position = [some |-> FALSE]
  /\ bt_cache = [cache |-> <<>>, limit |-> 1, min_level |-> 0]
  /\ bt_calls = 0
  /\ bt_appended = <<>>
  /\ bt_ids = <<>>
  /\ bt_failed = FALSE
  /\ bt_reopened = FALSE
  /\ bt_last = [op |-> "none", ok |-> TRUE, val |-> TRUE, before |-> 0]

\* no Case has been asked for its gauge
GaugeIdle ==
  /\ gauge_n = 0
  /\ gauge_scale = "Linear"
  /\ gauge_pc = "idle"
  /\ gauge_out = <<>>

\* no FileQueryDriver has been set up
FileQueryIdle ==
  /\ fq_N = 0
  /\ fq_log = <<>>
  /\ fq_tail_bad = FALSE
  /\ fq_db = FALSE
  /\ fq_crashed = FALSE
  /\ fq_last = [op |-> "none"]

\* no ZipfDistribution has been created
ZipfIdle ==
  /\ zipf_state = <<0, 0, 0, 0, 0, 0, 0, 0>>
  /\ zipf_n = 0
  /\ zipf_s = 0
  /\ zipf_calls = 0
  /\ zipf_last = [some |-> FALSE]

\* no serial index has been located
IndexIdle ==
  /\ ix_index = <<0, 0, 0, 0, 0, 0, 0, 0>>
  /\ ix_out = [some |-> FALSE]

\* no Cache is driven on its own
CacheIdle ==
  /\ ch_cache = [cache |-> <<>>, limit |-> 1, min_level |-> 0]
  /\ ch_last = [op |-> "none"]

\* no Serializable is being written
SerialIdle ==
  /\ sr_item = [type |-> "none"]
  /\ sr_out = [some |-> FALSE]

\* no prove benchmark is running
ProveIdle ==
  /\ pb_max_n = 0
  /\ pb_min_trials = 0
  /\ pb_gauge = {}
  /\ pb_time_complexity = <<>>
  /\ pb_trials = 0
  /\ pb_removed = {}
  /\ pb_pc = "idle"

ExtIdle ==
  GetIdle /\ LdbIdle /\ GaugeIdle /\ FileQueryIdle /\ ZipfIdle /\ IndexIdle /\ CacheIdle /\ SerialIdle /\ ProveIdle

\* what the get benchmarks leave alone, and its state before anything has run
get_others == <<bt_vars, log_vars, ldb_vars, gauge_vars, fq_vars, zipf_vars, ix_vars, ch_vars, sr_vars, pb_vars>>
GetOthersIdle == AppendIdle /\ LogIdle /\ LdbIdle /\ GaugeIdle /\ FileQueryIdle /\ ZipfIdle /\ IndexIdle /\ CacheIdle /\ SerialIdle /\ ProveIdle

\* what bench_level_db leaves alone
ldb_others == <<pt_vars, bt_vars, log_vars, get_vars, gauge_vars, fq_vars, zipf_vars, ix_vars, ch_vars, sr_vars, pb_vars>>
LdbOthersIdle == PerfectIdle /\ AppendIdle /\ LogIdle /\ GetIdle /\ GaugeIdle /\ FileQueryIdle /\ ZipfIdle /\ IndexIdle /\ CacheIdle /\ SerialIdle /\ ProveIdle

\* what Case::gauge leaves alone
gauge_others == <<pt_vars, bt_vars, log_vars, get_vars, ldb_vars, fq_vars, zipf_vars, ix_vars, ch_vars, sr_vars, pb_vars>>
GaugeOthersIdle == PerfectIdle /\ AppendIdle /\ LogIdle /\ GetIdle /\ LdbIdle /\ FileQueryIdle /\ ZipfIdle /\ IndexIdle /\ CacheIdle /\ SerialIdle /\ ProveIdle

\* what the ZipfDistribution leaves alone
zipf_others == <<pt_vars, bt_vars, log_vars, get_vars, ldb_vars, gauge_vars, fq_vars, ix_vars, ch_vars, sr_vars, pb_vars>>
ZipfOthersIdle ==
  PerfectIdle /\ AppendIdle /\ LogIdle /\ GetIdle /\ LdbIdle /\ GaugeIdle /\ FileQueryIdle /\ IndexIdle /\ CacheIdle /\ SerialIdle /\ ProveIdle

\* what index_to_level_position leaves alone
ix_others ==
  <<pt_vars, bt_vars, log_vars, get_vars, ldb_vars, gauge_vars, fq_vars, zipf_vars, ch_vars, sr_vars, pb_vars>>
IndexOthersIdle ==
  PerfectIdle /\ AppendIdle /\ LogIdle /\ GetIdle /\ LdbIdle /\ GaugeIdle /\ FileQueryIdle /\ ZipfIdle /\ CacheIdle /\ SerialIdle /\ ProveIdle

\* what the Cache driven alone leaves alone
ch_others ==
  <<pt_vars, bt_vars, log_vars, get_vars, ldb_vars, gauge_vars, fq_vars, zipf_vars, ix_vars, sr_vars, pb_vars>>
CacheOthersIdle ==
  PerfectIdle /\ AppendIdle /\ LogIdle /\ GetIdle /\ LdbIdle /\ GaugeIdle /\ FileQueryIdle /\ ZipfIdle /\ IndexIdle /\ SerialIdle /\ ProveIdle

\* what Serializable::write leaves alone
sr_others ==
  <<pt_vars, bt_vars, log_vars, get_vars, ldb_vars, gauge_vars, fq_vars, zipf_vars, ix_vars, ch_vars, pb_vars>>
SerialOthersIdle ==
  PerfectIdle /\ AppendIdle /\ LogIdle /\ GetIdle /\ LdbIdle /\ GaugeIdle /\ FileQueryIdle /\ ZipfIdle /\ IndexIdle /\ CacheIdle /\ ProveIdle

\* what the prove benchmark leaves alone
pb_others ==
  <<pt_vars, bt_vars, log_vars, get_vars, ldb_vars, gauge_vars, fq_vars, zipf_vars, ix_vars, ch_vars, sr_vars>>
ProveOthersIdle ==
  PerfectIdle /\ AppendIdle /\ LogIdle /\ GetIdle /\ LdbIdle /\ GaugeIdle /\ FileQueryIdle /\ ZipfIdle /\ IndexIdle /\ CacheIdle /\ SerialIdle

\* what the FileQueryDriver leaves alone
fq_others == <<pt_vars, bt_vars, log_vars, get_vars, ldb_vars, gauge_vars, zipf_vars, ix_vars, ch_vars, sr_vars, pb_vars>>
FileQueryOthersIdle == PerfectIdle /\ AppendIdle /\ LogIdle /\ GetIdle /\ LdbIdle /\ GaugeIdle /\ ZipfIdle /\ IndexIdle /\ CacheIdle /\ SerialIdle /\ ProveIdle

(***************************************************************************)
(* rust/src/lib.rs: MemKVS                                                 *)
(***************************************************************************)
MemKVS_new == EmptyMap

MemKVS_first(m) ==
  LET n == MapLen(m)
  IN  [node |-> MapGet(m, n), position |-> n + 1]

MemKVS_last(m) ==
  LET n == MapLen(m)
  IN  IF n = 0 THEN [node |-> None, position |-> 1]
      ELSE [node |-> MapGet(m, n), position |-> n + 1]

\* MemKVS::put returning the map's length instead of the next free key
MemKVS_put_LenAsNext(m, position, data) ==
  LET inserted == MapInsert(m, position, data)
  IN  [kvs |-> inserted, position |-> MapLen(inserted)]

\* MemKVS::put counting the record it is given even when it replaces one
MemKVS_put_CountsReplace(m, position, data) ==
  [kvs |-> MapInsert(m, position, data), position |-> MapLen(m) + 2]

MemKVS_put(m, position, data) ==
  LET inserted == MapInsert(m, position, data)
  IN  [kvs |-> inserted, position |-> MapLen(inserted) + 1]

\* MemKVSReader::read unwraps the lookup: a missing key panics
MemKVSReader_read(m, position) ==
  IF position \in DOMAIN m THEN Ok(m[position]) ELSE Err("panic: unwrap on None")

(***************************************************************************)
(* rust/src/hashtree/binary.rs: nodes and their serialisation              *)
(***************************************************************************)
\* stands for u64::MAX, the placeholder child position of a branch not yet linked
U64_MAX == -1

Leaf(data) == [tag |-> "Leaf", data |-> data]
Branch(left, right) == [tag |-> "Branch", left |-> left, right |-> right]

Node_new_leaf(position, index, data) ==
  [position |-> position, index |-> index, hash |-> blake3_hash(data), kind |-> Leaf(data)]

Node_new_internal(position, index, hash, left, right) ==
  [position |-> position, index |-> index, hash |-> hash, kind |-> Branch(left, right)]

Node_is_leaf(node) == node.kind.tag = "Leaf"

\* Hasher::update(left) then update(right), finalize
combine(left, right) == <<"blake3", left, right>>

\* MetaInfo::write: the bytes put into the sink (root as u64 LE, then height)
MetaInfo_bytes(meta) == to_le_bytes(U64(meta.root)) \o <<meta.height>>

\* MetaInfo::write: the size it returns
MetaInfo_write_size == 16

\* a u64 read back as a Position: the number it holds, and U64_MAX for every value
\* of 2^31 or more (no store of the model has such a key)
AsPosition(x) ==
  IF x[1] = 0 /\ x[2] = 0 /\ x[3] = 0 /\ x[4] = 0 /\ x[5] < 128
  THEN ((x[5] * 256 + x[6]) * 256 + x[7]) * 256 + x[8]
  ELSE U64_MAX

\* MetaInfo::read: read_u64 then read_u8 from a cursor over `bytes`
MetaInfo_read(bytes) ==
  IF Len(bytes) < 8 THEN Err("UnexpectedEof")
  ELSE IF Len(bytes) < 9 THEN Err("UnexpectedEof")
  ELSE Ok([root |-> AsPosition(from_le_bytes(SubSeq(bytes, 1, 8))), height |-> bytes[9]])

\* slate::formula::pow2e
pow2e(e) == Pow2(e)

RECURSIVE FloorLog2(_)
FloorLog2(i) == IF i <= 1 THEN 0 ELSE 1 + FloorLog2(i \div 2)

\* (level, position in the level) of a serial index
index_to_level_position(index) ==
  IF index = 1 THEN <<0, 1>>
  ELSE LET level == FloorLog2(index)
       IN  <<level, index - Pow2(level) + 1>>

index_to_leaf_number(index, height) ==
  LET leaf_start_index == Pow2(height - 1)
  IN  index + 1 - leaf_start_index

\* move_left with the boundary leaf sent to the left
move_left_Inclusive(height, node, k) ==
  LET lp == index_to_level_position(node.index)
      leaves_per_subtree == Pow2(height - lp[1] - 1)
  IN  k <= (lp[2] - 1) * leaves_per_subtree + 1 + (leaves_per_subtree \div 2)

move_left(height, node, k) ==
  LET lp == index_to_level_position(node.index)
      subtree_depth == height - lp[1] - 1
      leaves_per_subtree == Pow2(subtree_depth)
      first_leaf == (lp[2] - 1) * leaves_per_subtree + 1
      boundary == first_leaf + (leaves_per_subtree \div 2)
  IN  k < boundary

(***************************************************************************)
(* BinaryHashTree::create_cache: breadth-first from the root.  `rounds` is  *)
(* the number of iterations the two nested for loops still allow.          *)
(***************************************************************************)
\* create_cache leaving the traversal one node after the limit has been reached
RECURSIVE CacheFill_StopsLate(_, _, _, _, _)
CacheFill_StopsLate(m, cache, queue, rounds, limit) ==
  IF rounds = 0 THEN Ok(cache)
  ELSE IF queue = <<>> THEN Err("panic: pop_front on an empty queue")
  ELSE LET position == Head(queue)
           rest == Tail(queue)
           read == MemKVSReader_read(m, position)
       IN  IF ~read.ok THEN read
           ELSE LET node == read.value
                    pushed == IF MapLen(cache) + Len(rest) < limit /\ ~Node_is_leaf(node)
                              THEN rest \o <<node.kind.left, node.kind.right>>
                              ELSE rest
                    filled == MapInsert(cache, position, node)
                IN  IF MapLen(filled) > limit \/ pushed = <<>>
                    THEN Ok(filled)
                    ELSE CacheFill_StopsLate(m, filled, pushed, rounds - 1, limit)

RECURSIVE CacheFill(_, _, _, _, _)
CacheFill(m, cache, queue, rounds, limit) ==
  IF rounds = 0 THEN Ok(cache)
  ELSE IF queue = <<>> THEN Err("panic: pop_front on an empty queue")
  ELSE LET position == Head(queue)
           rest == Tail(queue)
           read == MemKVSReader_read(m, position)
       IN  IF ~read.ok THEN read
           ELSE LET node == read.value
                    pushed == IF MapLen(cache) + Len(rest) < limit /\ ~Node_is_leaf(node)
                              THEN rest \o <<node.kind.left, node.kind.right>>
                              ELSE rest
                    filled == MapInsert(cache, position, node)
                IN  IF MapLen(filled) = limit \/ pushed = <<>>
                    THEN Ok(filled)
                    ELSE CacheFill(m, filled, pushed, rounds - 1, limit)

create_cache(m, height, root, limit) ==
  CacheFill(m, EmptyMap, <<root>>, Pow2(height + 1) - 1, limit)

\* BinaryHashTree::load: the cache first, the storage on a miss
load(tr, m, position) ==
  IF position \in DOMAIN tr.cache THEN Ok(tr.cache[position])
  ELSE MemKVSReader_read(m, position)

\* BinaryHashTree::new behind its call of storage.first()
BinaryHashTree_from(metadata, m, cache_limit) ==
  IF metadata.some /\ Node_is_leaf(metadata.value)
  THEN LET meta == MetaInfo_read(metadata.value.kind.data)
       IN  IF ~meta.ok THEN meta
           ELSE LET cache == create_cache(m, meta.value.height, meta.value.root, cache_limit)
                IN  IF ~cache.ok THEN cache
                    ELSE Ok([root |-> meta.value.root, height |-> meta.value.height,
                             cache |-> cache.value])
  ELSE Err("panic")

\* BinaryHashTree::new on a MemKVS
BinaryHashTree_new(m, cache_limit) == BinaryHashTree_from(MemKVS_first(m).node, m, cache_limit)

\* HashTree::size
HashTree_size(tr) == pow2e(tr.height - 1)

\* the loop of HashTree::get, from the node `current`
RECURSIVE Descend(_, _, _, _)
Descend(tr, m, current, k) ==
  IF Node_is_leaf(current)
  THEN IF k = index_to_leaf_number(current.index, tr.height)
          /\ k = index_to_level_position(current.index)[2]
       THEN Ok(Some(current.kind.data))
       ELSE Err("panic: debug_assert_eq")
  ELSE LET position == IF move_left(tr.height, current, k)
                       THEN current.kind.left ELSE current.kind.right
           next == load(tr, m, position)
       IN  IF ~next.ok THEN next ELSE Descend(tr, m, next.value, k)

\* HashTree::get
HashTree_get(tr, m, k) ==
  IF k = 0 \/ k > HashTree_size(tr) THEN Ok(None)
  ELSE LET current == load(tr, m, tr.root)
       IN  IF ~current.ok THEN current ELSE Descend(tr, m, current.value, k)

(***************************************************************************)
(* BinaryHashTree::create_on_memory(h), one storage.put per step.          *)
(***************************************************************************)
PerfectInit ==
  /\ kvs = MemKVS_new
  /\ pt_pc = "start"
  /\ pt_h = 0
  /\ pt_root = <<0, 0>>
  /\ pt_current = 0
  /\ pt_level = 0
  /\ pt_k = 0
  /\ pt_nodes = <<>>
  /\ tree = Err("not opened")
  /\ AppendIdle
  /\ LogIdle
  /\ ExtIdle

\* BinaryHashTree::create up to its call of create_for_level: the metadata record
\* is put twice under position_metadata, first empty, then with the root position
Create(h) ==
  /\ pt_pc = "start"
  /\ LET first == MemKVS_first(kvs)
         position_metadata == first.position
         empty == Node_new_leaf(position_metadata, 0, MetaInfo_bytes([root |-> 0, height |-> 0]))
         put1 == MemKVS_put(kvs, position_metadata, empty)
         position_root == put1.position
         meta == Node_new_leaf(position_metadata, 0,
                               MetaInfo_bytes([root |-> position_root, height |-> h]))
         put2 == MemKVS_put(put1.kvs, position_metadata, meta)
     IN  /\ ~first.node.some
         /\ kvs' = put2.kvs
         /\ pt_root' = <<position_root, put2.position>>
         /\ pt_current' = position_root
  /\ pt_h' = h
  /\ pt_level' = 0
  /\ pt_k' = 0
  /\ pt_nodes' = [l \in 1..h |-> <<>>]
  /\ pt_pc' = "write"
  /\ UNCHANGED <<tree, bt_vars, log_vars, ext_vars>>

\* one iteration of the for loop of create_for_level: build the node and put it
WriteLevelNode ==
  /\ pt_pc = "write"
  /\ LET index == pow2e(pt_level) + pt_k
         node == IF pt_level + 1 = pt_h
                 THEN Node_new_leaf(pt_current, index, values(pt_k + 1))
                 ELSE Node_new_internal(pt_current, index, blake3_hash(<<>>), U64_MAX, U64_MAX)
         put == MemKVS_put(kvs, pt_current, node)
     IN  /\ kvs' = put.kvs
         /\ pt_current' = put.position
         /\ pt_nodes' = [pt_nodes EXCEPT ![pt_level + 1] = Append(@, node)]
  /\ IF pt_k + 1 < pow2e(pt_level)
     THEN pt_k' = pt_k + 1 /\ UNCHANGED <<pt_level, pt_pc>>
     ELSE IF pt_level + 1 < pt_h
     THEN pt_k' = 0 /\ pt_level' = pt_level + 1 /\ UNCHANGED pt_pc
     ELSE IF pt_h = 1
     THEN pt_pc' = "created" /\ UNCHANGED <<pt_level, pt_k>>
     ELSE pt_pc' = "link" /\ pt_level' = pt_h - 2 /\ pt_k' = 0
  /\ UNCHANGED <<pt_h, pt_root, tree, bt_vars, log_vars, ext_vars>>

\* one iteration of the linking loop of create_for_level, run by each frame after
\* the frame below it has returned its nodes
LinkLevelNode ==
  /\ pt_pc = "link"
  /\ LET node == pt_nodes[pt_level + 1][pt_k + 1]
         left == pt_nodes[pt_level + 2][2 * pt_k + 1]
         right == pt_nodes[pt_level + 2][2 * pt_k + 2]
         linked == [node EXCEPT !.hash = combine(left.hash, right.hash),
                                !.kind = Branch(left.position, right.position)]
     IN  /\ kvs' = MemKVS_put(kvs, linked.position, linked).kvs
         /\ pt_nodes' = [pt_nodes EXCEPT ![pt_level + 1][pt_k + 1] = linked]
  /\ IF pt_k + 1 < pow2e(pt_level)
     THEN pt_k' = pt_k + 1 /\ UNCHANGED <<pt_level, pt_pc>>
     ELSE IF pt_level > 0
     THEN pt_k' = 0 /\ pt_level' = pt_level - 1 /\ UNCHANGED pt_pc
     ELSE pt_pc' = "created" /\ UNCHANGED <<pt_level, pt_k>>
  /\ UNCHANGED <<pt_h, pt_root, pt_current, tree, bt_vars, log_vars, ext_vars>>

\* create_on_memory's last line: Self::new(storage, 1)
OpenOnMemory ==
  /\ pt_pc = "created"
  /\ tree' = BinaryHashTree_new(kvs, 1)
  /\ pt_pc' = "opened"
  /\ UNCHANGED <<kvs, pt_h, pt_root, pt_current, pt_level, pt_k, pt_nodes, bt_vars, log_vars, ext_vars>>

PerfectNext ==
  \/ \E h \in 1..MaxHeight : Create(h)
  \/ WriteLevelNode
  \/ LinkLevelNode
  \/ OpenOnMemory

SpecPerfect == PerfectInit /\ [][PerfectNext]_vars

(***************************************************************************)
(* Claims about the perfect tree on MemKVS.                                *)
(***************************************************************************)
PerfectBuilt == pt_pc \in {"created", "opened"}

\* the keys of the store other than the metadata record's
NodeKeys == (DOMAIN kvs) \ {1}

\* the number of leaves stored with a serial index of at most `index`
LeafRank(index) ==
  Cardinality({p \in NodeKeys : Node_is_leaf(kvs[p]) /\ kvs[p].index <= index})

\* C7: for every height h, the tree built by create_on_memory(h) opens, reports
\* size() = 2^(h-1), get(k) returns the little-endian bytes of splitmix64(k) for
\* every 1 <= k <= 2^(h-1), and None for k = 0 and k = 2^(h-1) + 1.
C7_CreateOnMemoryServesEveryLeaf ==
  pt_pc = "opened" =>
    /\ tree.ok
    /\ HashTree_size(tree.value) = Pow2(pt_h - 1)
    /\ \A k \in 1..Pow2(pt_h - 1) :
         HashTree_get(tree.value, kvs, k) = Ok(Some(values(k)))
    /\ HashTree_get(tree.value, kvs, 0) = Ok(None)
    /\ HashTree_get(tree.value, kvs, Pow2(pt_h - 1) + 1) = Ok(None)

C11_FirstIsEarliestLastIsLatest ==
  /\ MapLen(kvs) = 0 =>
       /\ MemKVS_first(kvs).node = None
       /\ MemKVS_last(kvs).node = None
  /\ MapLen(kvs) >= 1 =>
       /\ MemKVS_first(kvs).node = MapGet(kvs, 1)
       /\ MemKVS_last(kvs).node = MapGet(kvs, MapLen(kvs))
  /\ PerfectBuilt =>
       /\ MemKVS_first(kvs).node.some
       /\ MetaInfo_read(MemKVS_first(kvs).node.value.kind.data)
            = Ok([root |-> 2, height |-> pt_h])

(***************************************************************************)
(* rust/src/seqfile.rs and rust/src/binarytree.rs: the GetCUTs of the      *)
(* sequential file and of the perfect tree on a file, as main runs them:   *)
(* the SeqFileCUT first, and the FileBinaryTreeCUT once it is dropped.     *)
(***************************************************************************)
\* the eight bytes a hole of the file reads as
ZeroRecord == <<0, 0, 0, 0, 0, 0, 0, 0>>

RECURSIVE Zeros(_)
Zeros(count) == IF count <= 0 THEN <<>> ELSE <<ZeroRecord>> \o Zeros(count - 1)

\* file.write_all of one record at the cursor: behind the end of the file the gap
\* is filled with zeros
SeqFile_write_all(f, rec) ==
  [file |-> IF f.cursor >= Len(f.file)
            THEN f.file \o Zeros(f.cursor - Len(f.file)) \o <<rec>>
            ELSE [f.file EXCEPT ![f.cursor + 1] = rec],
   cursor |-> f.cursor + 1]

\* for i in from..=n { file.write_all(&values(i).to_le_bytes()) }
RECURSIVE SeqFile_write_values(_, _, _)
SeqFile_write_values(f, from, n) ==
  IF from > n THEN f
  ELSE SeqFile_write_values(SeqFile_write_all(f, values(from)), from + 1, n)

\* SeqFileCUT::prepare: writes at the cursor, wherever it stands
SeqFileCUT_prepare(f, n) ==
  LET size == Len(f.file)
  IN  IF size > n THEN Err("panic: assert")
      ELSE Ok(SeqFile_write_values(f, size + 1, n))

\* SeqFileCUT::append: seeks to the end first; returns the file's size in bytes
SeqFileCUT_append(f, n) ==
  LET begin == Len(f.file)
  IN  IF begin > n THEN Err("panic: assert")
      ELSE LET g == SeqFile_write_values([f EXCEPT !.cursor = Len(f.file)], begin + 1, n)
           IN  Ok([f |-> g, size |-> 8 * Len(g.file)])

\* SeqFileCUT::clear: set_len(0) leaves the cursor where it is
SeqFileCUT_clear(f) == [file |-> <<>>, cursor |-> f.cursor]

RECURSIVE Reversed(_)
Reversed(records) ==
  IF records = <<>> THEN <<>> ELSE Reversed(Tail(records)) \o <<Head(records)>>

\* the chunks of the buffer taken front to back
rchunks_exact_Forward(records) == records

\* buffer[..read_size].rchunks_exact(8): the records of the buffer, last first
rchunks_exact(records) == Reversed(records)

\* the for loop over the chunks of one buffer
RECURSIVE SeqFile_scan_buffer(_, _, _)
SeqFile_scan_buffer(chunks, i, i_current) ==
  IF chunks = <<>> THEN [found |-> FALSE, i_current |-> i_current]
  ELSE IF i_current = i THEN [found |-> TRUE, value |-> from_le_bytes(Head(chunks))]
  ELSE SeqFile_scan_buffer(Tail(chunks), i, i_current - 1)

\* the while loop of SeqFileCUT::get, positions counted in records
RECURSIVE SeqFile_scan(_, _, _, _, _)
SeqFile_scan(file, i, buffer_len, position, i_current) ==
  IF position = 0 THEN [outcome |-> "panic", got |-> None, cursor |-> 0]
  ELSE LET read_size == IF buffer_len < position THEN buffer_len ELSE position
           start == position - read_size
           buffer == SubSeq(file, start + 1, start + read_size)
           hit == SeqFile_scan_buffer(rchunks_exact(buffer), i, i_current)
       IN  IF hit.found
           THEN [outcome |-> IF splitmix64(U64(i)) = hit.value THEN "ok"
                             ELSE "panic: assert_eq",
                 got |-> Some(hit.value), cursor |-> start + read_size]
           ELSE SeqFile_scan(file, i, buffer_len, start, hit.i_current)

\* SeqFileCUT::get with the buffer of 2^cache_level records
SeqFileCUT_get(f, i, cache_level) ==
  SeqFile_scan(f.file, i, Pow2(cache_level), Len(f.file), Len(f.file))

\* Storage::first of the file's storage: the earliest record
BlockStorage_first(m) ==
  IF DOMAIN m = {} THEN None
  ELSE MapGet(m, CHOOSE p \in DOMAIN m : \A q \in DOMAIN m : p <= q)

\* FileBinaryTreeCUT::get: the tree opened with the cache limit 1 << cache_level,
\* get(i), and the assert_eq on the value
FileBinaryTreeCUT_get(m, i, cache_level) ==
  LET bht == BinaryHashTree_from(BlockStorage_first(m), m, Pow2(cache_level))
  IN  IF ~bht.ok THEN [tree |-> bht, got |-> None, outcome |-> "error"]
      ELSE LET value == HashTree_get(bht.value, m, i)
           IN  IF ~value.ok THEN [tree |-> bht, got |-> None, outcome |-> "error"]
               ELSE IF ~value.value.some
               THEN [tree |-> bht, got |-> None, outcome |-> "panic: assert_eq"]
               ELSE IF Len(value.value.value) # 8
               THEN [tree |-> bht, got |-> value.value, outcome |-> "panic: try_into"]
               ELSE [tree |-> bht, got |-> value.value,
                     outcome |-> IF splitmix64(U64(i)) = from_le_bytes(value.value.value)
                                 THEN "ok" ELSE "panic: assert_eq"]

SeqF == [file |-> sf_file, cursor |-> sf_cursor]

\* SeqFileCUT::new on a fresh path, the perfect tree not yet created
GetInit ==
  /\ kvs = MemKVS_new
  /\ pt_pc = "start"
  /\ pt_h = 0
  /\ pt_root = <<0, 0>>
  /\ pt_current = 0
  /\ pt_level = 0
  /\ pt_k = 0
  /\ pt_nodes = <<>>
  /\ tree = Err("not opened")
  /\ GetOthersIdle
  /\ sf_pc = "open"
  /\ sf_file = <<>>
  /\ sf_cursor = 0
  /\ get_last = [cut |-> "none"]

\* the outcome of a SeqFileCUT call that returns the file `r`, or panics
SeqBecomes(r) ==
  IF r.ok
  THEN sf_file' = r.value.file /\ sf_cursor' = r.value.cursor /\ sf_pc' = "open"
  ELSE sf_pc' = "panicked" /\ UNCHANGED <<sf_file, sf_cursor>>

SeqPrepare(n) ==
  /\ sf_pc = "open"
  /\ SeqBecomes(SeqFileCUT_prepare(SeqF, n))
  /\ get_last' = [cut |-> "seqfile-file", op |-> "prepare", n |-> n]
  /\ UNCHANGED <<pt_vars, get_others>>

SeqAppend(n) ==
  /\ sf_pc = "open"
  /\ LET r == SeqFileCUT_append(SeqF, n)
     IN  SeqBecomes(IF r.ok THEN Ok(r.value.f) ELSE r)
  /\ get_last' = [cut |-> "seqfile-file", op |-> "append", n |-> n]
  /\ UNCHANGED <<pt_vars, get_others>>

\* followed while the cursor has not passed MaxSeq records
SeqClear ==
  /\ sf_pc = "open"
  /\ sf_file # <<>>
  /\ sf_cursor <= MaxSeq
  /\ SeqBecomes(Ok(SeqFileCUT_clear(SeqF)))
  /\ get_last' = [cut |-> "seqfile-file", op |-> "clear"]
  /\ UNCHANGED <<pt_vars, get_others>>

\* set_cache_level(level) and get(i)
SeqGet(i, level) ==
  /\ sf_pc = "open"
  /\ LET r == SeqFileCUT_get(SeqF, i, level)
     IN  /\ get_last' = [cut |-> "seqfile-file", op |-> "get", i |-> i, level |-> level,
                         got |-> r.got, outcome |-> r.outcome]
         /\ IF r.outcome = "ok"
            THEN sf_cursor' = r.cursor /\ UNCHANGED <<sf_pc, sf_file>>
            ELSE sf_pc' = "panicked" /\ UNCHANGED <<sf_file, sf_cursor>>
  /\ UNCHANGED <<pt_vars, get_others>>

\* Drop for SeqFileCUT: the file is closed and removed
SeqDrop ==
  /\ sf_pc \in {"open", "panicked"}
  /\ sf_pc' = "dropped"
  /\ sf_file' = <<>>
  /\ sf_cursor' = 0
  /\ get_last' = [cut |-> "seqfile-file", op |-> "drop"]
  /\ UNCHANGED <<pt_vars, get_others>>

\* FileBinaryTreeCUT: set_cache_level(level) and get(i) on the created tree; the
\* call leaves the storage as it was, so one call is followed per run
FileTreeGet(i, level) ==
  /\ sf_pc = "dropped"
  /\ pt_pc = "created"
  /\ LET r == FileBinaryTreeCUT_get(kvs, i, level)
     IN  /\ tree' = r.tree
         /\ get_last' = [cut |-> "hashtree-file", op |-> "get", i |-> i, level |-> level,
                         got |-> r.got, outcome |-> r.outcome]
  /\ pt_pc' = "opened"
  /\ UNCHANGED <<kvs, pt_h, pt_root, pt_current, pt_level, pt_k, pt_nodes, sf_pc, sf_file,
                 sf_cursor, get_others>>

\* the indices get is called with: 0, the leaves, and one behind them
GetIndices == IF pt_h = 0 THEN {} ELSE 0..(Pow2(pt_h - 1) + 1)

GetNext ==
  \/ \E n \in 1..MaxSeq : SeqPrepare(n)
  \/ \E n \in 1..MaxSeq : SeqAppend(n)
  \/ SeqClear
  \/ \E i \in 1..MaxSeq, level \in 0..MaxLevel : SeqGet(i, level)
  \/ SeqDrop
  \/ sf_pc = "dropped" /\ \E h \in 1..MaxHeight : Create(h)
  \/ WriteLevelNode
  \/ LinkLevelNode
  \/ \E i \in GetIndices, level \in 0..MaxLevel : FileTreeGet(i, level)

SpecGet == GetInit /\ [][GetNext]_vars

\* C13: get(k) does not depend on the cache level.  A get of the sequential file
\* read the value, and ended the way, every buffer size 2^L does for that index, and a
\* get of the perfect tree returned what the tree opened with every cache limit
\* 2^L returns for that index: for a valid k the payload of leaf k.
C13_GetIsTheSameAtEveryCacheLevel ==
  /\ (get_last.cut = "seqfile-file" /\ get_last.op = "get") =>
       \A level \in 0..MaxLevel :
         /\ SeqFileCUT_get(SeqF, get_last.i, level).got = get_last.got
         /\ SeqFileCUT_get(SeqF, get_last.i, level).outcome = get_last.outcome
  /\ (get_last.cut = "hashtree-file" /\ get_last.op = "get") =>
       /\ \A level \in 0..MaxLevel :
            /\ FileBinaryTreeCUT_get(kvs, get_last.i, level).got = get_last.got
            /\ FileBinaryTreeCUT_get(kvs, get_last.i, level).outcome = get_last.outcome
       /\ get_last.i \in 1..Pow2(pt_h - 1) =>
            get_last.got = Some(values(get_last.i)) /\ get_last.outcome = "ok"

\* leaf 5 of a tree of height 5 has been read through a cache of 8 nodes, which
\* holds the root but not the leaf's parent
C13_Witness ==
  /\ get_last.cut = "hashtree-file"
  /\ get_last.op = "get"
  /\ get_last.i = 5
  /\ get_last.level = 3
  /\ pt_h = 5
  /\ tree.ok
  /\ MapLen(tree.value.cache) = 8
  /\ tree.value.root \in DOMAIN tree.value.cache
  /\ get_last.got = Some(values(5))

(***************************************************************************)
(* The descent of HashTree::get in the perfect tree.                       *)
(***************************************************************************)
\* the serial indices of the nodes the loop of HashTree::get visits for k, from
\* the node `current`
RECURSIVE DescentPath(_, _, _, _)
DescentPath(tr, m, current, k) ==
  IF Node_is_leaf(current) THEN <<current.index>>
  ELSE LET position == IF move_left(tr.height, current, k)
                       THEN current.kind.left ELSE current.kind.right
           next == load(tr, m, position)
       IN  IF ~next.ok THEN <<current.index>>
           ELSE <<current.index>> \o DescentPath(tr, m, next.value, k)

\* the serial indices of the leaves stored below the node at `position`
RECURSIVE LeavesUnder(_, _)
LeavesUnder(m, position) ==
  IF Node_is_leaf(m[position]) THEN {m[position].index}
  ELSE LeavesUnder(m, m[position].kind.left) \cup LeavesUnder(m, m[position].kind.right)

\* the tree of the store, opened without the cache
Opened == BinaryHashTree_from(BlockStorage_first(kvs), kvs, 1)

\* the visit of get(k) in the opened tree, from the root
GetPath(k) == DescentPath(Opened.value, kvs, load(Opened.value, kvs, Opened.value.root).value, k)

MAX_DATA_SIZE == 1024
OUT_LEN == 32
METADATA_SIZE == 16

Out(st, v) == [st |-> st, ok |-> TRUE, val |-> v]
Fail(st, e) == [st |-> st, ok |-> FALSE, val |-> e]

\* the `?` operator over sets of outcomes: continue from every success
Bind(S, F(_)) == UNION {IF o.ok THEN F(o) ELSE {o} : o \in S}

ANode_new_leaf(id, position, data) ==
  [position |-> position, hash |-> blake3_hash(data), range |-> <<id, id>>, kind |-> Leaf(data)]

ANode_combine(left, right) == <<"blake3", left, right>>

\* Node::new_internal hashing the children right before left
ANode_new_internal_Swapped(position, left, right) ==
  [position |-> position,
   hash |-> ANode_combine(right.hash, left.hash),
   range |-> <<left.range[1], right.range[2]>>,
   kind |-> Branch(left.position, right.position)]

\* Node::new_internal; its assert is checked by the callers (ANode_adjacent)
ANode_new_internal(position, left, right) ==
  [position |-> position,
   hash |-> ANode_combine(left.hash, right.hash),
   range |-> <<left.range[1], right.range[2]>>,
   kind |-> Branch(left.position, right.position)]

ANode_adjacent(left, right) == left.range[2] + 1 = right.range[1]

ANode_is_leaf(node) == node.range[1] = node.range[2]

RECURSIVE BitLength(_)
BitLength(x) == IF x = 0 THEN 0 ELSE 1 + BitLength(x \div 2)

\* Node::level: u64::BITS - (n - 1).leading_zeros()
ANode_level(node) == BitLength((node.range[2] - node.range[1] + 1) - 1)

\* Node::contains with the upper end of the range left out
ANode_contains_HalfOpen(node, id) == node.range[1] <= id /\ id < node.range[2]

ANode_contains(node, id) == node.range[1] <= id /\ id <= node.range[2]

\* Serializable::write of a Node: what reaches the file (the position is not stored)
ANode_write(node) ==
  [tag |-> "node", hash |-> node.hash, range |-> node.range,
   body |-> IF node.kind.tag = "Leaf"
            THEN [len |-> Len(node.kind.data), buffer |-> node.kind.data]
            ELSE [left |-> node.kind.left, right |-> node.kind.right]]

\* the number of bytes Node::write puts out
ANode_size(node) ==
  IF node.kind.tag = "Leaf" THEN OUT_LEN + 16 + 4 + MAX_DATA_SIZE ELSE OUT_LEN + 16 + 8 + 8

\* Serializable::read of a Node from the record found at `position`
ANode_read(rec, position) ==
  [position |-> position, hash |-> rec.hash, range |-> rec.range,
   kind |-> IF rec.range[1] = rec.range[2]
            THEN Leaf(SubSeq(rec.body.buffer, 1, rec.body.len))
            ELSE Branch(rec.body.left, rec.body.right)]

\* the metadata bytes of save_metadata: size, then root_position.unwrap_or(0)
MetadataRecord(size, root_position) ==
  [tag |-> "meta", size |-> size,
   root_position |-> IF root_position.some THEN root_position.value ELSE 0]

RecordSize(rec) ==
  IF rec.tag = "meta" THEN METADATA_SIZE
  ELSE IF "len" \in DOMAIN rec.body THEN OUT_LEN + 16 + 4 + MAX_DATA_SIZE
  ELSE OUT_LEN + 16 + 8 + 8

\* the file after `rec` is written at `position`: what it overlaps is gone
FileWrite(file, position, rec) ==
  LET stop == position + RecordSize(rec)
      kept == {q \in DOMAIN file : q + RecordSize(file[q]) <= position \/ q >= stop}
  IN  [q \in kept \cup {position} |-> IF q = position THEN rec ELSE file[q]]

Max(a, b) == IF a >= b THEN a ELSE b
Min(a, b) == IF a <= b THEN a ELSE b

(***************************************************************************)
(* Cache: a HashMap with a limit that prefers higher-level nodes.          *)
(***************************************************************************)
Cache_new(limit) == [cache |-> EmptyMap, limit |-> limit, min_level |-> 0]

MapRemoveAll(m, keys) == [x \in (DOMAIN m) \ keys |-> m[x]]

\* the key sets picked from the entries sorted by level, highest first
EvictChoices_HighestFirst(m, limit) ==
  {K \in SUBSET DOMAIN m :
     /\ Cardinality(K) = MapLen(m) - limit
     /\ \A x \in K : \A y \in (DOMAIN m) \ K : ANode_level(m[x]) >= ANode_level(m[y])}

\* the key sets `take(len - limit)` can pick from the entries sorted by level
EvictChoices(m, limit) ==
  {K \in SUBSET DOMAIN m :
     /\ Cardinality(K) = MapLen(m) - limit
     /\ \A x \in K : \A y \in (DOMAIN m) \ K : ANode_level(m[x]) <= ANode_level(m[y])}

\* the level of entries[len - limit]: the lowest level that stays
LowestLevel(m) ==
  CHOOSE l \in {ANode_level(m[x]) : x \in DOMAIN m} :
    \A x \in DOMAIN m : l <= ANode_level(m[x])

Cache_offer(c, node) ==
  IF (ANode_level(node) <= c.min_level /\ MapLen(c.cache) = c.limit)
     \/ node.position \in DOMAIN c.cache
  THEN {[c |-> c, ret |-> FALSE]}
  ELSE LET inserted == MapInsert(c.cache, node.position, node)
       IN  IF MapLen(inserted) > c.limit
           THEN {[c |-> [c EXCEPT !.cache = MapRemoveAll(inserted, K),
                                  !.min_level = LowestLevel(MapRemoveAll(inserted, K))],
                  ret |-> TRUE] : K \in EvictChoices(inserted, c.limit)}
           ELSE {[c |-> [c EXCEPT !.cache = inserted,
                                  !.min_level = Min(c.min_level, ANode_level(node))],
                  ret |-> TRUE]}

Cache_replace(c, node) ==
  IF node.position \in DOMAIN c.cache
  THEN {[c |-> [c EXCEPT !.cache = MapInsert(c.cache, node.position, node)], ret |-> TRUE]}
  ELSE Cache_offer(c, node)

Cache_get(c, position) == MapGet(c.cache, position)

(***************************************************************************)
(* BinaryHashTree (appendable): file access                                *)
(***************************************************************************)
\* one write to the device: fails when the fuel is spent, else uses one unit
Spend(st) == [st EXCEPT !.fuel = IF @ > 0 THEN @ - 1 ELSE @]
Broken(st) == [st EXCEPT !.fuel = -1]

\* save_metadata: write_all of the 16 metadata bytes at the file's cursor
save_metadata(st) ==
  IF st.fuel = 0 THEN {Fail(Broken(st), "io")}
  ELSE LET rec == MetadataRecord(st.size, st.root_position)
       IN  {Out([Spend(st) EXCEPT !.file = FileWrite(st.file, st.cursor, rec),
                                  !.flen = Max(st.flen, st.cursor + METADATA_SIZE),
                                  !.cursor = st.cursor + METADATA_SIZE], TRUE)}

\* write_node leaving the cache as it was
write_node_KeepsCache(st, node) ==
  IF st.fuel = 0 THEN {Fail([Broken(st) EXCEPT !.cursor = node.position], "io")}
  ELSE {Out([Spend(st) EXCEPT
               !.file = FileWrite(st.file, node.position, ANode_write(node)),
               !.flen = Max(st.flen, node.position + ANode_size(node)),
               !.cursor = node.position + ANode_size(node)], FALSE)}

\* write_node: seek to node.position, write and flush, then Cache::replace
write_node(st, node) ==
  IF st.fuel = 0 THEN {Fail([Broken(st) EXCEPT !.cursor = node.position], "io")}
  ELSE LET written == [Spend(st) EXCEPT
                         !.file = FileWrite(st.file, node.position, ANode_write(node)),
                         !.flen = Max(st.flen, node.position + ANode_size(node)),
                         !.cursor = node.position + ANode_size(node)]
       IN  {Out([written EXCEPT !.cache = r.c], r.ret) : r \in Cache_replace(written.cache, node)}

\* read_node: the cache first; on a miss seek, read through a BufReader (which
\* reads ahead up to its 8192-byte buffer), then Cache::offer
read_node(st, position) ==
  IF position = 0 THEN {Fail(st, "panic: position != 0")}
  ELSE IF Cache_get(st.cache, position).some
  THEN {Out(st, Cache_get(st.cache, position).value)}
  ELSE IF position \in DOMAIN st.file /\ st.file[position].tag = "node"
  THEN LET node == ANode_read(st.file[position], position)
           moved == [st EXCEPT !.cursor = Min(st.flen, position + 8192)]
       IN  {Out([moved EXCEPT !.cache = r.c], node) : r \in Cache_offer(moved.cache, node)}
  ELSE {Fail([st EXCEPT !.cursor = Min(st.flen, position + 8192)], "io")}

\* root
root(st) ==
  IF st.root_position.some
  THEN Bind(read_node(st, st.root_position.value), LAMBDA o : {Out(o.st, Some(o.val))})
  ELSE {Out(st, None)}

RECURSIVE lookup(_, _, _)
lookup(st, id, node) ==
  IF ~ANode_contains(node, id) THEN {Fail(st, "panic: node.contains(id)")}
  ELSE IF node.kind.tag = "Leaf" THEN {Out(st, node)}
  ELSE Bind(read_node(st, node.kind.left), LAMBDA l :
         IF ANode_contains(l.val, id) THEN lookup(l.st, id, l.val)
         ELSE Bind(read_node(l.st, node.kind.right), LAMBDA r : lookup(r.st, id, r.val)))

RECURSIVE update(_, _, _, _)
update(st, id, node, value) ==
  IF ~ANode_contains(node, id) THEN {Fail(st, "panic: node.contains(id)")}
  ELSE IF node.kind.tag = "Leaf"
  THEN LET leaf == ANode_new_leaf(id, node.position, value)
       IN  Bind(write_node(st, leaf), LAMBDA w : {Out(w.st, leaf.hash)})
  ELSE Bind(read_node(st, node.kind.left), LAMBDA l :
       Bind(read_node(l.st, node.kind.right), LAMBDA r :
         LET below == IF ANode_contains(l.val, id)
                      THEN Bind(update(r.st, id, l.val, value),
                                LAMBDA u : {Out(u.st, <<u.val, r.val.hash>>)})
                      ELSE Bind(update(r.st, id, r.val, value),
                                LAMBDA u : {Out(u.st, <<l.val.hash, u.val>>)})
         IN  Bind(below, LAMBDA h :
               LET rehashed == [node EXCEPT !.hash = ANode_combine(h.val[1], h.val[2])]
               IN  Bind(write_node(h.st, rehashed), LAMBDA w : {Out(w.st, rehashed.hash)}))))

\* expand, first loop: the empty leaves size+i for i in `i`..size-1, each written
\* at the stream position; the outcome's value is the `nodes` vector
RECURSIVE ExpandLeaves(_, _, _)
ExpandLeaves(st, nodes, i) ==
  IF i >= st.size THEN {Out(st, nodes)}
  ELSE LET empty_leaf == ANode_new_leaf(st.size + i, st.cursor, <<>>)
       IN  Bind(write_node(st, empty_leaf),
                LAMBDA w : ExpandLeaves(w.st, Append(nodes, empty_leaf), i + 1))

\* expand, one pass of the for loop inside `while nodes.len() > 1`, from index i
\* (0-based, step 2); `done` are the branches made so far
RECURSIVE ExpandPairs(_, _, _, _)
ExpandPairs(st, nodes, i, done) ==
  IF i >= Len(nodes) THEN {Out(st, done)}
  ELSE IF i + 2 > Len(nodes) THEN {Fail(st, "panic: index out of bounds")}
  ELSE LET left == nodes[i + 1]
           right == nodes[i + 2]
           branch == ANode_new_internal(st.cursor, left, right)
       IN  IF ~ANode_adjacent(left, right) THEN {Fail(st, "panic: new_internal")}
           ELSE Bind(write_node(st, branch),
                     LAMBDA w : ExpandPairs(w.st, nodes, i + 2, Append(done, branch)))

\* expand, the while loop
RECURSIVE ExpandBranches(_, _)
ExpandBranches(st, nodes) ==
  IF Len(nodes) <= 1 THEN {Out(st, nodes)}
  ELSE Bind(ExpandPairs(st, nodes, 0, <<>>), LAMBDA p : ExpandBranches(p.st, p.val))

\* expand: a second subtree as large as the tree, then a new root over both
expand(st, old_root, leaf) ==
  Bind(write_node(st, leaf), LAMBDA w :
  Bind(ExpandLeaves(w.st, <<leaf>>, 1), LAMBDA ls :
  Bind(ExpandBranches(ls.st, ls.val), LAMBDA bs :
    LET right == bs.val[1]
        new_root == ANode_new_internal(bs.st.cursor, old_root, right)
    IN  IF ~ANode_adjacent(old_root, right) THEN {Fail(bs.st, "panic: new_internal")}
        ELSE Bind(write_node(bs.st, new_root), LAMBDA r :
               {Out([r.st EXCEPT !.root_position = Some(new_root.position)], TRUE)}))))

\* file.seek(SeekFrom::End(0))
SeekEnd(st) == [st EXCEPT !.cursor = st.flen]

\* HashTree::append
HashTree_append(st, data) ==
  LET id == st.size
      grown ==
        Bind(root(st), LAMBDA rt :
          IF ~rt.val.some
          THEN IF rt.st.size # 0 THEN {Fail(rt.st, "panic: size == 0")}
               ELSE LET leaf == ANode_new_leaf(id, rt.st.flen, data)
                    IN  Bind(write_node(SeekEnd(rt.st), leaf), LAMBDA w :
                          {Out([w.st EXCEPT !.root_position = Some(leaf.position)], TRUE)})
          ELSE IF ANode_contains(rt.val.value, id)
          THEN update(rt.st, id, rt.val.value, data)
          ELSE expand(SeekEnd(rt.st), rt.val.value, ANode_new_leaf(id, rt.st.flen, data)))
  IN  Bind(grown, LAMBDA g :
        Bind(save_metadata([g.st EXCEPT !.size = @ + 1]), LAMBDA m : {Out(m.st, id)}))

\* HashTree::get
AHashTree_get(st, index) ==
  IF index >= st.size THEN {Out(st, None)}
  ELSE Bind(root(st), LAMBDA rt :
         IF rt.val.some
         THEN Bind(lookup(rt.st, index, rt.val.value), LAMBDA l :
                IF l.val.kind.tag = "Leaf" THEN {Out(l.st, Some(l.val.kind.data))}
                ELSE {Fail(l.st, "panic: unreachable")})
         ELSE {Out(rt.st, None)})

\* load_metadata: the 16 header bytes if the file has them, else save_metadata;
\* then seek to the end
load_metadata(st) ==
  LET at0 == [st EXCEPT !.cursor = 0]
      loaded ==
        IF 0 \in DOMAIN st.file /\ st.file[0].tag = "meta"
        THEN {Out([at0 EXCEPT !.cursor = METADATA_SIZE,
                              !.size = st.file[0].size,
                              !.root_position = IF st.file[0].size > 0
                                                THEN Some(st.file[0].root_position)
                                                ELSE None], TRUE)}
        ELSE save_metadata(at0)
  IN  Bind(loaded, LAMBDA o : {Out(SeekEnd(o.st), TRUE)})

\* BinaryHashTree::new on the file `file` of length `flen`
ABinaryHashTree_new(file, flen, cache_limit, fuel) ==
  load_metadata([file |-> file, flen |-> flen, cursor |-> 0, size |-> 0,
                 root_position |-> None, cache |-> Cache_new(cache_limit), fuel |-> fuel])

(***************************************************************************)
(* The appendable tree as a state machine: a tree opened on an empty       *)
(* temporary file, then append, get and drop-and-reopen in any order.      *)
(***************************************************************************)
\* the payloads handed to append
Payloads == {<<>>, <<1>>}

\* the cache_limit values handed to BinaryHashTree::new
CacheLimits == {1, 2, 3}

\* the most writes one append makes, plus one: fuel beyond it never runs out
MaxWrites == 2 * MaxAppends + 2

St(fuel) ==
  [file |-> bt_file, flen |-> bt_flen, cursor |-> bt_cursor, size |-> bt_size,
   root_position |-> bt_root_position, cache |-> bt_cache, fuel |-> fuel]

\* the tree's fields and the file become those of the outcome's state
Becomes(st) ==
  /\ bt_file' = st.file
  /\ bt_flen' = st.flen
  /\ bt_cursor' = st.cursor
  /\ bt_size' = st.size
  /\ bt_root_position' = st.root_position
  /\ bt_cache' = st.cache

\* a panic has unwound the thread: nothing more is called
Panicked == ~bt_last.ok /\ bt_last.val # "io"

AppendInit ==
  /\ PerfectIdle
  /\ LogIdle
  /\ ExtIdle
  /\ \E limit \in CacheLimits :
       \E o \in ABinaryHashTree_new(EmptyMap, 0, limit, -1) :
         /\ bt_file = o.st.file
         /\ bt_flen = o.st.flen
         /\ bt_cursor = o.st.cursor
         /\ bt_size = o.st.size
         /\ bt_root_position = o.st.root_position
         /\ bt_cache = o.st.cache
  /\ bt_calls = 0
  /\ bt_appended = <<>>
  /\ bt_ids = <<>>
  /\ bt_failed = FALSE
  /\ bt_reopened = FALSE
  /\ bt_last = [op |-> "new", ok |-> TRUE, val |-> TRUE, before |-> 0]

\* tree.append(data), the device failing at the write number fuel + 1 if fuel >= 0;
\* the device fails at most once in a run
AppendData(data, fuel) ==
  /\ ~Panicked
  /\ bt_calls < MaxAppends
  /\ bt_failed => fuel = -1
  /\ \E o \in HashTree_append(St(fuel), data) :
       /\ Becomes(o.st)
       /\ bt_last' = [op |-> "append", ok |-> o.ok, val |-> o.val, before |-> bt_size]
       /\ bt_appended' = IF o.ok THEN Append(bt_appended, data) ELSE bt_appended
       /\ bt_ids' = IF o.ok THEN Append(bt_ids, o.val) ELSE bt_ids
       /\ bt_failed' = (bt_failed \/ (~o.ok /\ o.val = "io"))
  /\ bt_calls' = bt_calls + 1
  /\ UNCHANGED <<bt_reopened, pt_vars, log_vars, ext_vars>>

\* tree.get(index)
GetData(index) ==
  /\ ~Panicked
  /\ \E o \in AHashTree_get(St(-1), index) :
       /\ Becomes(o.st)
       /\ bt_last' = [op |-> "get", ok |-> o.ok, val |-> o.val, before |-> bt_size]
  /\ UNCHANGED <<bt_calls, bt_appended, bt_ids, bt_failed, bt_reopened, pt_vars, log_vars, ext_vars>>

\* tree.sync(), drop(tree), BinaryHashTree::new on the same path, once in a run
Reopen ==
  /\ ~Panicked
  /\ ~bt_reopened
  /\ \E o \in ABinaryHashTree_new(bt_file, bt_flen, bt_cache.limit, -1) :
       /\ Becomes(o.st)
       /\ bt_last' = [op |-> "new", ok |-> o.ok, val |-> o.val, before |-> bt_size]
  /\ bt_reopened' = TRUE
  /\ UNCHANGED <<bt_calls, bt_appended, bt_ids, bt_failed, pt_vars, log_vars, ext_vars>>

AppendNext ==
  \/ \E data \in Payloads : \E fuel \in -1..MaxWrites : AppendData(data, fuel)
  \/ \E index \in 0..MaxAppends : GetData(index)
  \/ Reopen

SpecAppend == AppendInit /\ [][AppendNext]_vars

(***************************************************************************)
(* Claims about the appendable tree.                                       *)
(***************************************************************************)
\* what get(i) has to return after the appends recorded in bt_appended
Expected(i) == IF i < Len(bt_appended) THEN Some(bt_appended[i + 1]) ELSE None

\* every outcome of get(i) from the current state is Ok(Expected(i))
GetsServeAppended(indices) ==
  \A i \in indices : \A o \in AHashTree_get(St(-1), i) : o.ok /\ o.val = Expected(i)

\* C3: a failed append never advances the size: whenever append returns an error,
\* size() afterwards equals size() before the call, whichever write failed.
C3_FailedAppendKeepsSize ==
  (bt_last.op = "append" /\ ~bt_last.ok /\ bt_last.val = "io") => bt_size = bt_last.before

\* C9: on a tree opened on a fresh file, after m appends that all succeeded the
\* returned ids are 0..m-1 in order, size() = m, get(i) returns the bytes of the
\* i-th append for every i < m and None for every i >= m, and no call panics.
C9_AppendsServeEveryEntry ==
  (~bt_failed /\ ~bt_reopened) =>
    /\ ~Panicked
    /\ bt_ids = [i \in 1..Len(bt_appended) |-> i - 1]
    /\ bt_size = Len(bt_appended)
    /\ Len(bt_appended) = bt_calls
    /\ GetsServeAppended(0..MaxAppends)
    /\ bt_last.op = "get" => bt_last.ok

\* four appends have succeeded, the fourth one updating the padding leaf 3 of the
\* subtree made by the third, and a get has just returned entry 1
C9_Witness ==
  /\ ~bt_failed /\ ~bt_reopened
  /\ bt_ids = <<0, 1, 2, 3>>
  /\ bt_appended = <<<<>>, <<1>>, <<>>, <<1>>>>
  /\ bt_last.op = "get" /\ bt_last.ok /\ bt_last.val = Some(<<1>>)

\* C10: after m appends, sync and drop, BinaryHashTree::new on the same path gives
\* a tree with size() = m whose get(i) returns the appended data for every i < m.
C10_ReopenKeepsEntries ==
  (bt_last.op = "new" /\ bt_reopened /\ ~bt_failed) =>
    /\ bt_last.ok
    /\ bt_size = Len(bt_appended)
    /\ GetsServeAppended(0..(Len(bt_appended) - 1))

(***************************************************************************)
(* The append-only log (the slate crate the benchmark drives): entries,    *)
(* node addresses (i, j), the forest of full subtrees, the right-spine     *)
(* fold, authentication paths and AuthPath::prove.                         *)
(***************************************************************************)
\* H(left || right)
H(left, right) == <<"H", left, right>>

\* the count of trailing zero bits of i >= 1
RECURSIVE ctz(_)
ctz(i) == IF i % 2 = 1 THEN 0 ELSE 1 + ctz(i \div 2)

\* the children of the interior node (i, j), j >= 1
LeftChild(i, j) == <<i - Pow2(j - 1), j - 1>>
RightChild(i, j) == <<i, j - 1>>

\* inodes_introduced(i): ctz(i) interior nodes in ascending j
inodes_introduced(i) ==
  [j \in 1..ctz(i) |-> [j |-> j, left |-> LeftChild(i, j), right |-> RightChild(i, j)]]

\* the hash stored for the node (i, j), j <= ctz(i), by the entry i
NodeHash(log, i, j) == IF j = 0 THEN log[i].hash ELSE log[i].inodes[j].hash

\* the interior hashes of the entry being appended, levels `j`.. upward, given
\* the hash `below` of (i, j - 1)
RECURSIVE BuildInodes(_, _, _, _)
BuildInodes(log, i, j, below) ==
  IF j > ctz(i) THEN <<>>
  ELSE LET inode == inodes_introduced(i)[j]
           hash == H(NodeHash(log, inode.left[1], inode.left[2]), below)
       IN  <<[j |-> j, left |-> inode.left, right |-> inode.right, hash |-> hash]>>
           \o BuildInodes(log, i, j + 1, hash)

\* append(bytes): the new entry behind the log; the index it returns is the new n
Slate_append(log, bytes) ==
  LET i == Len(log) + 1
      leaf == blake3_hash(bytes)
  IN  Append(log, [payload |-> bytes, hash |-> leaf, inodes |-> BuildInodes(log, i, 1, leaf)])

\* n()
Slate_n(log) == Len(log)

\* snapshot(): n and the entries it can read
Slate_snapshot(log) == [n |-> Len(log), entries |-> log]

\* a snapshot that follows the log instead of keeping the n it captured
Snapshot_at_Live(log, n) == [n |-> Len(log), entries |-> log]

\* a snapshot captured when the log held n entries, as it reads later: the n it
\* captured and a handle to the storage, whose content is the log's as it is now
Snapshot_at(log, n) == [n |-> n, entries |-> log]

\* the forest with every root placed behind the leaves of its own bit only
RECURSIVE ForestFrom_NotAdvancing(_, _, _)
ForestFrom_NotAdvancing(n, b, done) ==
  IF b < 0 THEN <<>>
  ELSE IF (n \div Pow2(b)) % 2 = 1
  THEN <<<<done + Pow2(b), b>>>> \o ForestFrom_NotAdvancing(n, b - 1, done)
  ELSE ForestFrom_NotAdvancing(n, b - 1, done)

\* forest_roots(n) below the bit `b`, the leaves 1..`done` being covered already
RECURSIVE ForestFrom(_, _, _)
ForestFrom(n, b, done) ==
  IF b < 0 THEN <<>>
  ELSE IF (n \div Pow2(b)) % 2 = 1
  THEN <<<<done + Pow2(b), b>>>> \o ForestFrom(n, b - 1, done + Pow2(b))
  ELSE ForestFrom(n, b - 1, done)

\* forest_roots(n): one root per set bit of n, most significant first
forest_roots(n) == ForestFrom(n, FloorLog2(n), 0)

\* the leaves a full node (i, j) covers
Covers(node, k) == node[1] - Pow2(node[2]) < k /\ k <= node[1]

\* the distance that leaves out the combine steps of the right spine
access_distance_InTree(k, n) ==
  LET roots == forest_roots(n)
      t == CHOOSE x \in 1..Len(roots) : Covers(roots[x], k)
  IN  roots[t][2]

\* access_distance(k, n) = d(k, n): the combine steps of the right-spine fold
\* between the snapshot root and the forest root covering k, plus that root's level
access_distance(k, n) ==
  LET roots == forest_roots(n)
      t == CHOOSE x \in 1..Len(roots) : Covers(roots[x], k)
  IN  (t - 1) + (IF t < Len(roots) THEN 1 ELSE 0) + roots[t][2]

\* entry_access_distance(k, n): None outside 1..n
entry_access_distance(k, n) == IF k \in 1..n THEN Some(access_distance(k, n)) ELSE None

\* the right-spine fold of the forest roots t..: its address and its hash
RECURSIVE Fold(_, _, _)
Fold(snap, roots, t) ==
  IF t = Len(roots)
  THEN [addr |-> roots[t], hash |-> NodeHash(snap.entries, roots[t][1], roots[t][2])]
  ELSE [addr |-> <<snap.n, roots[t][2] + 1>>,
        hash |-> H(NodeHash(snap.entries, roots[t][1], roots[t][2]),
                   Fold(snap, roots, t + 1).hash)]

\* the snapshot root
SnapshotRoot(snap) == Fold(snap, forest_roots(snap.n), 1).hash

\* the siblings met on the way from the forest root t down the spine to the
\* forest root covering leaf k, root first
RECURSIVE SpineSiblings(_, _, _, _)
SpineSiblings(snap, roots, t, k) ==
  IF Covers(roots[t], k)
  THEN IF t = Len(roots) THEN <<>>
       ELSE LET f == Fold(snap, roots, t + 1)
            IN  <<[addr |-> f.addr, hash |-> f.hash, side |-> "right"]>>
  ELSE <<[addr |-> roots[t],
          hash |-> NodeHash(snap.entries, roots[t][1], roots[t][2]), side |-> "left"]>>
       \o SpineSiblings(snap, roots, t + 1, k)

\* the siblings met on the way from the full node (i, j) down to leaf k
RECURSIVE TreeSiblings(_, _, _, _)
TreeSiblings(snap, i, j, k) ==
  IF j = 0 THEN <<>>
  ELSE LET left == LeftChild(i, j)
           right == RightChild(i, j)
       IN  IF k <= left[1]
           THEN <<[addr |-> right, hash |-> NodeHash(snap.entries, right[1], right[2]),
                   side |-> "right"]>> \o TreeSiblings(snap, left[1], left[2], k)
           ELSE <<[addr |-> left, hash |-> NodeHash(snap.entries, left[1], left[2]),
                   side |-> "left"]>> \o TreeSiblings(snap, right[1], right[2], k)

\* the forest root covering leaf k
CoveringRoot(n, k) ==
  LET roots == forest_roots(n)
  IN  roots[CHOOSE t \in 1..Len(roots) : Covers(roots[t], k)]

\* get_auth_path(k): None outside 1..n, else the leaf, its hash, the siblings from
\* the root down, and the root hash
get_auth_path(snap, k) ==
  IF k = 0 \/ k > snap.n THEN None
  ELSE LET top == CoveringRoot(snap.n, k)
       IN  Some([i |-> k,
                 leaf |-> snap.entries[k].hash,
                 siblings |-> SpineSiblings(snap, forest_roots(snap.n), 1, k)
                              \o TreeSiblings(snap, top[1], top[2], k),
                 root |-> SnapshotRoot(snap)])

\* the leaf reached from the full node (i, j) by walking towards k
RECURSIVE WalkToLeaf(_, _, _)
WalkToLeaf(i, j, k) ==
  IF j = 0 THEN i
  ELSE IF k <= LeftChild(i, j)[1] THEN WalkToLeaf(LeftChild(i, j)[1], j - 1, k)
  ELSE WalkToLeaf(i, j - 1, k)

\* get(i): the payload of the leaf the walk from the root ends at
Snapshot_get(snap, i) ==
  IF i = 0 \/ i > snap.n THEN None
  ELSE LET top == CoveringRoot(snap.n, i)
       IN  Some(snap.entries[WalkToLeaf(top[1], top[2], i)].payload)

\* AuthPath::prove: Identical when the roots agree, else the addresses of the
\* siblings whose hashes differ, and the leaf's when the leaf hashes differ
AuthPath_prove(self, other) ==
  IF self.root = other.root THEN [identical |-> TRUE, divergents |-> {}]
  ELSE [identical |-> FALSE,
        divergents |->
          {self.siblings[x].addr : x \in {y \in 1..Len(self.siblings) :
                                            self.siblings[y].hash # other.siblings[y].hash}}
          \cup (IF self.leaf # other.leaf THEN {<<self.i, 0>>} ELSE {})]

(***************************************************************************)
(* rust/src/slate.rs and rust/src/main.rs: ensure, prepare, run_query and  *)
(* the convergence loop of SlateCUT::prove.                                *)
(***************************************************************************)
\* the loop condition letting one more iteration through
LoopContinues_Inclusive(n, target) == n <= target

\* the condition of `while db.n() < n`
LoopContinues(n, target) == n < target

\* the payload of the index before
EnsurePayload_OffByOne(n) == to_le_bytes(splitmix64(U64(n)))

\* ensure, and prepare with splitmix64: the payload appended when the log holds n
\* entries, splitmix64(db.n() + 1).to_le_bytes()
EnsurePayload(n) == to_le_bytes(splitmix64(U64(n + 1)))

\* the values closure of an alternate that differs at the indices `alt`
AlternateValue(alt, k) ==
  LET value == splitmix64(U64(k))
  IN  IF k \in alt THEN splitmix64(value) ELSE value

\* prepare of an alternate: values(slate.n() + 1).to_le_bytes()
AlternatePayload(alt, n) == to_le_bytes(AlternateValue(alt, n + 1))

\* run_query: get(i) on a fresh snapshot, unwrapped and compared with splitmix64(i)
run_query(log, i) ==
  LET value == Snapshot_get(Slate_snapshot(log), i)
  IN  IF ~value.some THEN [got |-> value, outcome |-> "panic: unwrap on None"]
      ELSE IF Len(value.value) # 8 THEN [got |-> value, outcome |-> "panic: try_into"]
      ELSE IF splitmix64(U64(i)) # from_le_bytes(value.value)
      THEN [got |-> value, outcome |-> "panic"]
      ELSE [got |-> value, outcome |-> "ok"]

\* (i, j) <= (i2, j2) as Rust orders tuples: by the first component, then the second
TupleLeq(a, b) == a[1] < b[1] \/ (a[1] = b[1] /\ a[2] <= b[2])

\* the minimum taken by level first, then by index
DivergentsMin_LevelFirst(divergents) ==
  IF divergents = {} THEN None
  ELSE Some(CHOOSE a \in divergents : \A b \in divergents : TupleLeq(<<a[2], a[1]>>, <<b[2], b[1]>>))

\* divergents.iter().min()
DivergentsMin(divergents) ==
  IF divergents = {} THEN None
  ELSE Some(CHOOSE a \in divergents : \A b \in divergents : TupleLeq(a, b))

\* the break taken one level too early
IsLeafLevel_UpToOne(min_j) == min_j <= 1

\* `if *min_j == 0`
IsLeafLevel(min_j) == min_j = 0

\* the paths of the last leaf requested again
NextPathIndex_Stale(n, min_i) == n

\* the leaf whose paths the next iteration compares: get_auth_path(*min_i)
NextPathIndex(n, min_i) == min_i

\* most iterations the convergence loop is followed for
MaxIterations == 2 * MaxN + 2

LogInit ==
  /\ PerfectIdle
  /\ AppendIdle
  /\ ExtIdle
  /\ log_N \in 1..MaxN
  /\ log_alt \in {S \in SUBSET (1..log_N) : Cardinality(S) <= MaxDiffs}
  /\ log_a = <<>>
  /\ log_b = <<>>
  /\ log_last = [op |-> "none"]
  /\ prove_pc = "idle"
  /\ prove_paths = <<>>
  /\ prove_iter = 0
  /\ prove_div = {}
  /\ prove_sel = None
  /\ prove_prev = None
  /\ prove_result = None

\* one iteration of the loop of ensure / prepare on the log of `cut`
PrepareStep ==
  /\ prove_pc = "idle"
  /\ LoopContinues(Slate_n(log_a), log_N)
  /\ LET bytes == EnsurePayload(Slate_n(log_a))
         appended == Slate_append(log_a, bytes)
     IN  /\ log_a' = appended
         /\ log_last' = [op |-> "append", log |-> "a", before |-> Slate_n(log_a),
                         index |-> Slate_n(appended), payload |-> bytes]
  /\ UNCHANGED <<log_N, log_alt, log_b, prove_pc, prove_paths, prove_iter, prove_div,
                 prove_sel, prove_prev, prove_result, pt_vars, bt_vars, ext_vars>>

\* one iteration of the loop of prepare on the alternate, made after cut.prepare
PrepareAlternateStep ==
  /\ prove_pc = "idle"
  /\ ~LoopContinues(Slate_n(log_a), log_N)
  /\ LoopContinues(Slate_n(log_b), log_N)
  /\ LET bytes == AlternatePayload(log_alt, Slate_n(log_b))
         appended == Slate_append(log_b, bytes)
     IN  /\ log_b' = appended
         /\ log_last' = [op |-> "append", log |-> "b", before |-> Slate_n(log_b),
                         index |-> Slate_n(appended), payload |-> bytes]
  /\ UNCHANGED <<log_N, log_alt, log_a, prove_pc, prove_paths, prove_iter, prove_div,
                 prove_sel, prove_prev, prove_result, pt_vars, bt_vars, ext_vars>>

\* run_query(case, db, i) on the log of `cut`, once ensure has returned and before
\* the alternate is prepared
Query(i) ==
  /\ prove_pc = "idle"
  /\ ~LoopContinues(Slate_n(log_a), log_N)
  /\ Slate_n(log_b) = 0
  /\ log_last' = [op |-> "query", log |-> "a", index |-> i,
                  got |-> run_query(log_a, i).got, outcome |-> run_query(log_a, i).outcome]
  /\ UNCHANGED <<log_N, log_alt, log_a, log_b, prove_pc, prove_paths, prove_iter,
                 prove_div, prove_sel, prove_prev, prove_result, pt_vars, bt_vars, ext_vars>>

\* SlateCUT::prove up to its loop: both logs restored, the paths of db1.n() taken
ProveStart ==
  /\ prove_pc = "idle"
  /\ ~LoopContinues(Slate_n(log_a), log_N)
  /\ ~LoopContinues(Slate_n(log_b), log_N)
  /\ LET auth_path1 == get_auth_path(Slate_snapshot(log_a), Slate_n(log_a))
         auth_path2 == get_auth_path(Slate_snapshot(log_b), Slate_n(log_a))
     IN  IF auth_path1.some /\ auth_path2.some
         THEN /\ prove_paths' = <<auth_path1.value, auth_path2.value>>
              /\ prove_pc' = "loop"
         ELSE /\ prove_paths' = <<>>
              /\ prove_pc' = "panicked"
  /\ log_last' = [op |-> "prove"]
  /\ UNCHANGED <<log_N, log_alt, log_a, log_b, prove_iter, prove_div, prove_sel,
                 prove_prev, prove_result, pt_vars, bt_vars, ext_vars>>

\* one iteration of the loop of SlateCUT::prove
ProveIterate ==
  /\ prove_pc = "loop"
  /\ prove_iter < MaxIterations
  /\ LET proved == AuthPath_prove(prove_paths[2], prove_paths[1])
         min == DivergentsMin(proved.divergents)
     IN  /\ prove_div' = proved.divergents
         /\ prove_prev' = prove_sel
         /\ IF proved.identical
            THEN /\ prove_result' = None
                 /\ prove_sel' = None
                 /\ prove_pc' = "done"
                 /\ UNCHANGED prove_paths
            ELSE IF ~min.some
            THEN /\ prove_pc' = "panicked"
                 /\ prove_sel' = None
                 /\ UNCHANGED <<prove_result, prove_paths>>
            ELSE IF IsLeafLevel(min.value[2])
            THEN /\ prove_result' = Some(min.value[1])
                 /\ prove_sel' = min
                 /\ prove_pc' = "done"
                 /\ UNCHANGED prove_paths
            ELSE LET k == NextPathIndex(Slate_n(log_a), min.value[1])
                     auth_path1 == get_auth_path(Slate_snapshot(log_a), k)
                     auth_path2 == get_auth_path(Slate_snapshot(log_b), k)
                 IN  /\ prove_sel' = min
                     /\ UNCHANGED prove_result
                     /\ IF auth_path1.some /\ auth_path2.some
                        THEN /\ prove_paths' = <<auth_path1.value, auth_path2.value>>
                             /\ prove_pc' = "loop"
                        ELSE /\ prove_pc' = "panicked"
                             /\ UNCHANGED prove_paths
  /\ prove_iter' = prove_iter + 1
  /\ UNCHANGED <<log_N, log_alt, log_a, log_b, log_last, pt_vars, bt_vars, ext_vars>>

LogNext ==
  \/ PrepareStep
  \/ PrepareAlternateStep
  \/ \E i \in 0..(MaxN + 1) : Query(i)
  \/ ProveStart
  \/ ProveIterate

SpecLog == LogInit /\ [][LogNext]_vars

\* the convergence loop is sequential code: once entered it keeps executing
SpecLogFair == SpecLog /\ WF_vars(ProveIterate)

(***************************************************************************)
(* Claims about the log and the convergence loop.                          *)
(***************************************************************************)
\* the smallest m with 2^m >= n
CeilLog2(n) == IF n <= 1 THEN 0 ELSE 1 + FloorLog2(n - 1)

\* C1: after entries 1..n have been appended with payload values(i), get(i) on a
\* snapshot taken afterwards returns Some(values(i)) for every 1 <= i <= n and None
\* for i = 0 and every i > n; run_query gets the same.
C1_GetReturnsAppended ==
  /\ \A i \in 0..(MaxN + 1) :
       Snapshot_get(Slate_snapshot(log_a), i)
         = IF 1 <= i /\ i <= Slate_n(log_a) THEN Some(values(i)) ELSE None
  /\ log_last.op = "query" =>
       /\ log_last.got = IF 1 <= log_last.index /\ log_last.index <= log_N
                         THEN Some(values(log_last.index)) ELSE None
       /\ log_last.outcome = IF log_last.got.some THEN "ok" ELSE "panic: unwrap on None"

\* run_query(3) has just read entry 3 of a log of five entries
C1_Witness ==
  /\ Slate_n(log_a) = 5
  /\ log_last.op = "query" /\ log_last.index = 3
  /\ log_last.got = Some(values(3)) /\ log_last.outcome = "ok"

C4_ConvergenceFindsTheLeaf ==
  /\ (prove_pc = "panicked" => Cardinality(log_alt) > 1)
  /\ prove_pc = "done" =>
       /\ log_alt = {} => prove_result = None
       /\ \A k \in 1..log_N : log_alt = {k} => prove_result = Some(k)

\* the loop has returned Some(5) for logs of eight entries that differ at leaf 5
C4_Witness ==
  prove_pc = "done" /\ log_N = 8 /\ log_alt = {5} /\ prove_result = Some(5) /\ prove_iter >= 2

LoopNarrows ==
  /\ prove_pc # "panicked"
  /\ (prove_sel.some /\ prove_prev.some) =>
       /\ prove_sel.value # prove_prev.value
       /\ prove_sel.value[2] < prove_prev.value[2]
  /\ Cardinality(log_alt) = 1 => prove_iter <= CeilLog2(log_N) + 1

\* C6: the convergence loop always terminates: the address selected by one
\* iteration is never selected by the next (its level is strictly lower), and for
\* two logs of equal n that differ at exactly one leaf the loop finishes within
\* ceil(log2 n) + 1 iterations.
C6_LoopTerminates ==
  /\ []LoopNarrows
  /\ (prove_pc = "loop" ~> prove_pc = "done")

\* the loop has ended after three iterations on logs of eight entries that differ
\* at leaf 1, the last two selections being (2, 1) and (1, 0)
C6_Witness ==
  /\ prove_pc = "done" /\ log_N = 8 /\ log_alt = {1} /\ prove_iter = 3
  /\ prove_prev = Some(<<2, 1>>) /\ prove_sel = Some(<<1, 0>>)

\* C12: a snapshot captured at size n reads the same after every append: for each
\* size n0 the log has passed and every index k, get(k) on the snapshot of size n0
\* returns after a step what it returned before it, and None for k > n0.
C12_SnapshotReadsAreStable ==
  [][\A n0 \in 0..Slate_n(log_a) : \A k \in 0..(MaxN + 1) :
       /\ Snapshot_get(Snapshot_at(log_a', n0), k)
            = Snapshot_get(Snapshot_at(log_a, n0), k)
       /\ k > n0 => Snapshot_get(Snapshot_at(log_a', n0), k) = None]_vars

\* an append has moved the log from 3 to 4 entries; the snapshot of size 3 still
\* reads entry 3 and does not see entry 4
C12_Witness ==
  /\ log_last.op = "append"
  /\ log_last.log = "a"
  /\ log_last.before = 3
  /\ Slate_n(log_a) = 4
  /\ Snapshot_get(Snapshot_at(log_a, 3), 3) = Some(values(3))
  /\ Snapshot_get(Snapshot_at(log_a, 3), 4) = None
  /\ Snapshot_get(Slate_snapshot(log_a), 4) = Some(values(4))

\* the hash obtained from `hash` below the sibling x by combining it with the
\* siblings x, x - 1, .., 1 (the path lists them from the root down)
RECURSIVE FoldUp(_, _, _)
FoldUp(hash, siblings, x) ==
  IF x = 0 THEN hash
  ELSE IF siblings[x].side = "left" THEN FoldUp(H(siblings[x].hash, hash), siblings, x - 1)
  ELSE FoldUp(H(hash, siblings[x].hash), siblings, x - 1)

\* C16: for every 1 <= k <= n, access_distance(k, n) is the length of the
\* authentication path of k in the snapshot of size n, and folding the leaf hash
\* with the path's siblings from the leaf to the root by H(left || right) gives the
\* snapshot root; access_distance(1,3) = 2, access_distance(3,3) = 1, and the
\* distance is 3 for every k when n = 8.
C16_DistanceIsThePathLength ==
  /\ \A log \in {log_a, log_b} : \A k \in 1..Slate_n(log) :
       LET snap == Slate_snapshot(log)
           path == get_auth_path(snap, k)
       IN  /\ path.some
           /\ access_distance(k, snap.n) = Len(path.value.siblings)
           /\ path.value.leaf = blake3_hash(log[k].payload)
           /\ FoldUp(path.value.leaf, path.value.siblings, Len(path.value.siblings))
                = SnapshotRoot(snap)
           /\ path.value.root = SnapshotRoot(snap)
  /\ access_distance(1, 3) = 2
  /\ access_distance(3, 3) = 1
  /\ \A k \in 1..8 : access_distance(k, 8) = 3

\* the log holds 7 entries: the path of leaf 5 has three siblings, the path of
\* leaf 7 two
C16_Witness ==
  /\ Slate_n(log_a) = 7
  /\ Len(get_auth_path(Slate_snapshot(log_a), 5).value.siblings) = 3
  /\ Len(get_auth_path(Slate_snapshot(log_a), 7).value.siblings) = 2
  /\ log_last.op = "append"

(***************************************************************************)
(* benches/slate.rs: bench_level_db, the log's layout kept in leveldb.     *)
(* One step per stored node: the value and the leaf hash of entry i, then  *)
(* one interior node of NthGenHashTree::new(i).inodes() per step.          *)
(***************************************************************************)
\* the data every iteration stores: 1024 zero bytes
bench_data == [len |-> 1024, byte |-> 0]

\* format!("val{}", i) and format!("hash{}_{}", i, j)
ValKey(i) == <<"val", i>>
HashKey(i, j) == <<"hash", i, j>>

\* the key of the left hash read under the level of the node being built
LeftKey_NodeLevel(inode) == HashKey(inode.left[1], inode.j)

\* the key of the right child's hash read in place of the left one
LeftKey_RightChild(inode) == HashKey(inode.right[1], inode.right[2])

\* the key of the left child's hash: hash{inode.left.i}_{inode.left.j}
LeftKey(inode) == HashKey(inode.left[1], inode.left[2])

BenchInit ==
  /\ LdbOthersIdle
  /\ ldb = EmptyMap
  /\ ldb_pc = "iter"
  /\ ldb_i = 1
  /\ ldb_j = 0
  /\ ldb_right = <<>>

\* the head of an iteration: the value and the leaf hash are put
BenchPutLeaf ==
  /\ ldb_pc = "iter"
  /\ ldb_i <= MaxBench
  /\ LET hash == blake3_hash(bench_data)
     IN  /\ ldb' = MapInsert(MapInsert(ldb, ValKey(ldb_i), bench_data), HashKey(ldb_i, 0), hash)
         /\ ldb_right' = hash
  /\ IF inodes_introduced(ldb_i) = <<>>
     THEN ldb_i' = ldb_i + 1 /\ UNCHANGED <<ldb_pc, ldb_j>>
     ELSE ldb_pc' = "inodes" /\ ldb_j' = 0 /\ UNCHANGED ldb_i
  /\ UNCHANGED ldb_others

\* one pass of `for inode in generation.inodes().iter()`
BenchPutInode ==
  /\ ldb_pc = "inodes"
  /\ LET inode == inodes_introduced(ldb_i)[ldb_j + 1]
         left_hash == MapGet(ldb, LeftKey(inode))
     IN  IF ~left_hash.some
         THEN ldb_pc' = "panicked" /\ UNCHANGED <<ldb, ldb_i, ldb_j, ldb_right>>
         ELSE LET hash == H(left_hash.value, ldb_right)
              IN  /\ ldb' = MapInsert(ldb, HashKey(ldb_i, inode.j), hash)
                  /\ ldb_right' = hash
                  /\ IF ldb_j + 1 = Len(inodes_introduced(ldb_i))
                     THEN ldb_i' = ldb_i + 1 /\ ldb_j' = 0 /\ ldb_pc' = "iter"
                     ELSE ldb_j' = ldb_j + 1 /\ UNCHANGED <<ldb_i, ldb_pc>>
  /\ UNCHANGED ldb_others

BenchNext == BenchPutLeaf \/ BenchPutInode

SpecBench == BenchInit /\ [][BenchNext]_vars

\* the number of trailing zero bits of i >= 1, by divisibility
TrailingZeros(i) == CHOOSE z \in 0..31 : i % Pow2(z) = 0 /\ (i \div Pow2(z)) % 2 = 1

\* the levels j of the hashes stored under entry i
LevelsStored(i) == {j \in 0..31 : HashKey(i, j) \in DOMAIN ldb}

\* C14: the append of entry i introduces exactly the interior nodes (i, 1) ..
\* (i, ctz(i)), in ascending level, and the node (i, j) is built from its left
\* child (i - 2^(j-1), j-1) and its right child (i, j-1), both stored before it.
C14_AppendIntroducesCtzInodes ==
  /\ ldb_pc # "panicked"
  /\ \A i \in 1..(ldb_i - 1) :
       /\ LevelsStored(i) = 0..TrailingZeros(i)
       /\ Len(inodes_introduced(i)) = TrailingZeros(i)
       /\ \A j \in 1..TrailingZeros(i) :
            /\ inodes_introduced(i)[j].j = j
            /\ inodes_introduced(i)[j].left = <<i - Pow2(j - 1), j - 1>>
            /\ inodes_introduced(i)[j].right = <<i, j - 1>>
            /\ HashKey(i - Pow2(j - 1), j - 1) \in DOMAIN ldb
            /\ ldb[HashKey(i, j)] = H(ldb[HashKey(i - Pow2(j - 1), j - 1)], ldb[HashKey(i, j - 1)])
  /\ ldb_pc = "inodes" =>
       /\ LevelsStored(ldb_i) = 0..ldb_j
       /\ ldb_j < TrailingZeros(ldb_i)
  /\ \A i \in (ldb_i + 1)..(MaxBench + 1) : LevelsStored(i) = {}

\* entry 8 has been appended: the interior nodes (8,1), (8,2), (8,3) are stored
C14_Witness ==
  /\ ldb_i = 9
  /\ ldb_pc = "iter"
  /\ LevelsStored(8) = {0, 1, 2, 3}
  /\ LevelsStored(7) = {0}

(***************************************************************************)
(* rust/src/main.rs: Case::gauge for the scales BestCase and WorstCase,    *)
(* over entry_access_distance_limits and entry_access_distance.            *)
(***************************************************************************)
\* the largest access distance of a log of n entries
MaxDistance(n) ==
  CHOOSE d \in 0..63 : /\ \E k \in 1..n : access_distance(k, n) = d
                       /\ \A k \in 1..n : access_distance(k, n) <= d

\* the range of the indices at distance d: from the smallest to the largest
DistanceRange(n, d) ==
  LET ks == {k \in 1..n : access_distance(k, n) = d}
  IN  IF ks = {} THEN <<>>
      ELSE LET lo == CHOOSE k \in ks : \A x \in ks : k <= x
               hi == CHOOSE k \in ks : \A x \in ks : x <= k
           IN  [x \in 1..(hi - lo + 1) |-> lo + x - 1]

\* entry_access_distance_limits(n): per distance d = 0, 1, .. the range of indices
access_distance_limits(n) ==
  LET buckets == [d1 \in 1..(MaxDistance(n) + 1) |-> DistanceRange(n, d1 - 1)]
  IN  [upper |-> buckets, lower |-> buckets]

\* the distance of a bucket counted from one
BucketDistance_OneBased(d) == d + 1

\* enumerate(): the distance d of the bucket at offset d, `d as u8`
BucketDistance(d) == d

\* range.filter(|k| entry_access_distance(*k, max_n).unwrap() == d as u8)
RECURSIVE FilterRange(_, _, _)
FilterRange(range, d, n) ==
  IF range = <<>> THEN Ok(<<>>)
  ELSE LET distance == entry_access_distance(Head(range), n)
           rest == FilterRange(Tail(range), d, n)
       IN  IF ~distance.some THEN Err("panic: unwrap on None")
           ELSE IF ~rest.ok THEN rest
           ELSE IF distance.value = BucketDistance(d) THEN Ok(<<Head(range)>> \o rest.value)
           ELSE rest

\* into_iter().enumerate().flat_map(..) over the buckets from offset d on
RECURSIVE FlatMapBuckets(_, _, _)
FlatMapBuckets(buckets, d, n) ==
  IF d >= Len(buckets) THEN Ok(<<>>)
  ELSE LET kept == FilterRange(buckets[d + 1], d, n)
           rest == FlatMapBuckets(buckets, d + 1, n)
       IN  IF ~kept.ok THEN kept
           ELSE IF ~rest.ok THEN rest
           ELSE Ok(kept.value \o rest.value)

\* gauge.into_iter().filter(|x| seen.insert(*x)): the first occurrences, in order
RECURSIVE RemoveDuplicates(_, _)
RemoveDuplicates(gauge, seen) ==
  IF gauge = <<>> THEN <<>>
  ELSE IF Head(gauge) \in seen THEN RemoveDuplicates(Tail(gauge), seen)
  ELSE <<Head(gauge)>> \o RemoveDuplicates(Tail(gauge), seen \cup {Head(gauge)})

\* Case::gauge
Case_gauge(scale, max_n) ==
  LET limits == access_distance_limits(max_n)
      gauge == IF scale = "BestCase" THEN FlatMapBuckets(limits.lower, 0, max_n)
               ELSE FlatMapBuckets(limits.upper, 0, max_n)
  IN  IF ~gauge.ok THEN gauge ELSE Ok(RemoveDuplicates(gauge.value, {}))

GaugeInit ==
  /\ GaugeOthersIdle
  /\ gauge_n \in 1..MaxGaugeN
  /\ gauge_scale \in {"BestCase", "WorstCase"}
  /\ gauge_pc = "new"
  /\ gauge_out = <<>>

Gauge ==
  /\ gauge_pc = "new"
  /\ LET gauge == Case_gauge(gauge_scale, gauge_n)
     IN  IF gauge.ok
         THEN gauge_out' = gauge.value /\ gauge_pc' = "done"
         ELSE gauge_out' = <<>> /\ gauge_pc' = "panicked"
  /\ UNCHANGED <<gauge_n, gauge_scale, gauge_others>>

GaugeNext == Gauge

SpecGauge == GaugeInit /\ [][GaugeNext]_vars

\* the set bits of n
SetBits(n) == {b \in 0..30 : (n \div Pow2(b)) % 2 = 1}

\* the first leaf a root covers
FirstLeaf(node) == node[1] - Pow2(node[2]) + 1

\* C15: forest_roots(n) has popcount(n) elements, one per set bit b of n from the
\* most to the least significant, the root of bit b covering 2^b consecutive
\* leaves; the ranges follow one another from leaf 1 to leaf n without gap or
\* overlap; forest_roots(13) = [(8,3), (12,2), (13,0)].
C15_ForestRootsPartitionTheLeaves ==
  LET roots == forest_roots(gauge_n)
  IN  gauge_n >= 1 =>
        /\ Len(roots) = Cardinality(SetBits(gauge_n))
        /\ {roots[t][2] : t \in 1..Len(roots)} = SetBits(gauge_n)
        /\ \A t \in 1..(Len(roots) - 1) : roots[t][2] > roots[t + 1][2]
        /\ FirstLeaf(roots[1]) = 1
        /\ \A t \in 1..(Len(roots) - 1) : FirstLeaf(roots[t + 1]) = roots[t][1] + 1
        /\ roots[Len(roots)][1] = gauge_n
        /\ \A k \in 1..gauge_n :
             Cardinality({t \in 1..Len(roots) : Covers(roots[t], k)}) = 1
        /\ gauge_n = 13 => roots = <<<<8, 3>>, <<12, 2>>, <<13, 0>>>>

\* the gauge of a case with max_n = 13 has been built over the three roots
C15_Witness ==
  /\ gauge_n = 13
  /\ gauge_pc = "done"
  /\ Len(forest_roots(gauge_n)) = 3
  /\ access_distance(13, 13) = 2

\* the offsets of the buckets holding index k
BucketsOf(buckets, k) ==
  {d \in 0..(Len(buckets) - 1) : \E x \in 1..Len(buckets[d + 1]) : buckets[d + 1][x] = k}

Slate_new_on_file(log, tail_bad) ==
  IF ~tail_bad THEN {Ok(log)}
  ELSE {Ok(SubSeq(log, 1, Len(log) - 1)), Err("corrupted")}

\* the Err arm of open: remove_file(path), then Slate::new_on_file on the new file
OpenFallback(r) == {[db |-> fresh, removed |-> TRUE] : fresh \in Slate_new_on_file(<<>>, FALSE)}

\* open(path)
open(log, tail_bad) ==
  UNION {IF r.ok THEN {[db |-> r, removed |-> FALSE]} ELSE OpenFallback(r) :
           r \in Slate_new_on_file(log, tail_bad)}

FileQueryInit ==
  /\ FileQueryOthersIdle
  /\ fq_N \in 1..MaxOpenN
  /\ fq_log = <<>>
  /\ fq_tail_bad = FALSE
  /\ fq_db = FALSE
  /\ fq_crashed = FALSE
  /\ fq_last = [op |-> "none"]

\* setup up to its call of ensure: open(&path)
FileQueryOpen ==
  /\ ~fq_db
  /\ \E r \in open(fq_log, fq_tail_bad) :
       /\ fq_last' = [op |-> "open", before |-> Len(fq_log), corrupted |-> fq_tail_bad,
                      ok |-> r.db.ok, removed |-> r.removed,
                      n |-> IF r.db.ok THEN Slate_n(r.db.value) ELSE 0]
       /\ IF r.db.ok
          THEN fq_log' = r.db.value /\ fq_tail_bad' = FALSE /\ fq_db' = TRUE
          ELSE UNCHANGED <<fq_log, fq_tail_bad, fq_db>>
  /\ UNCHANGED <<fq_N, fq_crashed, fq_others>>

\* one iteration of ensure(&mut db, case.max_n)
FileQueryEnsureStep ==
  /\ fq_db
  /\ LoopContinues(Slate_n(fq_log), fq_N)
  /\ fq_log' = Slate_append(fq_log, EnsurePayload(Slate_n(fq_log)))
  /\ fq_last' = [op |-> "append", before |-> Slate_n(fq_log)]
  /\ UNCHANGED <<fq_N, fq_tail_bad, fq_db, fq_crashed, fq_others>>

\* run(case, db, i) once setup has returned
FileQueryRun(i) ==
  /\ fq_db
  /\ ~LoopContinues(Slate_n(fq_log), fq_N)
  /\ fq_last' = [op |-> "query", index |-> i, got |-> run_query(fq_log, i).got,
                 outcome |-> run_query(fq_log, i).outcome]
  /\ UNCHANGED <<fq_N, fq_log, fq_tail_bad, fq_db, fq_crashed, fq_others>>

\* the Slate is dropped: at cleanup, or with the process in the middle of ensure
FileQueryDrop ==
  /\ fq_db
  /\ fq_db' = FALSE
  /\ fq_last' = [op |-> "drop", before |-> Slate_n(fq_log)]
  /\ UNCHANGED <<fq_N, fq_log, fq_tail_bad, fq_crashed, fq_others>>

\* the interruption: the tail record of the closed file is left corrupted
CorruptTail ==
  /\ ~fq_db
  /\ ~fq_crashed
  /\ Len(fq_log) >= 1
  /\ fq_tail_bad' = TRUE
  /\ fq_crashed' = TRUE
  /\ fq_last' = [op |-> "corrupt", before |-> Slate_n(fq_log)]
  /\ UNCHANGED <<fq_N, fq_log, fq_db, fq_others>>

FileQueryNext ==
  \/ FileQueryOpen
  \/ FileQueryEnsureStep
  \/ \E i \in 1..fq_N : FileQueryRun(i)
  \/ FileQueryDrop
  \/ CorruptTail

SpecFileQuery == FileQueryInit /\ [][FileQueryNext]_vars

ZipfShapes == {1, 2}

\* the seeds the distribution is created with
ZipfSeeds == {0, 1, 100, 255}

RECURSIVE Power(_, _)
Power(base, e) == IF e = 0 THEN 1 ELSE base * Power(base, e - 1)

\* a common multiple of 1..n
RECURSIVE CommonMultiple(_)
CommonMultiple(n) ==
  IF n <= 1 THEN 1
  ELSE LET below == CommonMultiple(n - 1)
       IN  below * (CHOOSE f \in 1..n : (below * f) % n = 0
                                        /\ \A g \in 1..(f - 1) : (below * g) % n # 0)

\* (k as f64).powf(-s), as a multiple of 1 / CommonMultiple(n)^s
Weight(k, s, n) == Power(CommonMultiple(n) \div k, s)

\* cdf before the normalisation: the running sum up to the offset i (from 0)
RECURSIVE PartialSum(_, _, _)
PartialSum(i, s, n) ==
  IF i < 0 THEN 0 ELSE PartialSum(i - 1, s, n) + Weight(i + 1, s, n)

\* the 16 leading bits of the state: u lies in [Leading / 2^16, (Leading + 1) / 2^16)
Leading(state) == state[1] * 256 + state[2]

\* p.partial_cmp(&u) for p = cdf[i]: the orderings the comparison can return
Orderings(i, s, n, state) ==
  LET p == PartialSum(i, s, n)
      sum == PartialSum(n - 1, s, n)
  IN  IF i = n - 1 THEN {"Greater"}
      ELSE IF p * 65536 < Leading(state) * sum THEN {"Less"}
      ELSE IF p * 65536 > (Leading(state) + 1) * sum THEN {"Greater"}
      ELSE {"Less", "Equal", "Greater"}

\* cdf.binary_search_by(..): Ok(i) for an entry that may compare Equal, Err(i) for
\* every count i of entries that compare Less
binary_search_by(s, n, state) ==
  LET less == {i \in 0..(n - 1) : Orderings(i, s, n, state) = {"Less"}}
      open_ == {i \in 0..(n - 1) : "Equal" \in Orderings(i, s, n, state)}
  IN  {[ok |-> TRUE, i |-> i] : i \in open_}
      \cup {[ok |-> FALSE, i |-> Cardinality(less) + c] : c \in 0..Cardinality(open_)}

\* ZipfDistribution::next_u64 on the state already advanced
next_u64(s, n, state) ==
  {IF found.ok THEN n - found.i ELSE n - found.i + 1 : found \in binary_search_by(s, n, state)}

\* ZipfDistribution::new(seed, s, n)
ZipfInit ==
  /\ ZipfOthersIdle
  /\ zipf_state \in {U64(seed) : seed \in ZipfSeeds}
  /\ zipf_s \in ZipfShapes
  /\ zipf_n \in 1..MaxZipfN
  /\ zipf_calls = 0
  /\ zipf_last = None

ZipfNextU64 ==
  /\ zipf_calls < MaxDraws
  /\ zipf_state' = splitmix64(zipf_state)
  /\ \E value \in next_u64(zipf_s, zipf_n, splitmix64(zipf_state)) : zipf_last' = Some(value)
  /\ zipf_calls' = zipf_calls + 1
  /\ UNCHANGED <<zipf_n, zipf_s, zipf_others>>

ZipfNext == ZipfNextU64

SpecZipf == ZipfInit /\ [][ZipfNext]_vars

\* C19: next_u64 returns a value of 1..n for the n given to new, for every seed,
\* every shape and every call: never 0 and never n + 1.
C19_ZipfStaysInRange ==
  zipf_last.some => zipf_last.value \in 1..zipf_n

(***************************************************************************)
(* rust/src/hashtree/binary.rs: index_to_level_position at the width of    *)
(* u64.  An addition or subtraction that leaves the width is reported      *)
(* (the debug build panics, the release build wraps).                      *)
(***************************************************************************)
\* u64::BITS
u64_BITS == 64

\* x < y on u64
U64Less(x, y) == \E d \in 1..8 : x[d] < y[d] /\ \A e \in 1..(d - 1) : x[e] = y[e]

\* u64::leading_zeros
leading_zeros(x) ==
  IF \A d \in 1..8 : x[d] = 0 THEN u64_BITS
  ELSE LET first == CHOOSE d \in 1..8 : x[d] # 0 /\ \A e \in 1..(d - 1) : x[e] = 0
       IN  8 * (first - 1) + (7 - FloorLog2(x[first]))

\* 1u64 << level, for a level below u64::BITS
ShlOne(level) ==
  [d \in 1..8 |-> IF 8 - d = level \div 8 THEN Pow2(level % 8) ELSE 0]

\* the digits of x - y from the digit k on, least significant first, then the borrow
RECURSIVE SubDigits(_, _, _, _)
SubDigits(x, y, k, borrow) ==
  IF k > 7 THEN <<borrow>>
  ELSE LET d == Digit(x, k) - Digit(y, k) - borrow
       IN  <<(d + 256) % 256>> \o SubDigits(x, y, k + 1, IF d < 0 THEN 1 ELSE 0)

\* x - y on u64, with the overflow flag
overflowing_sub(x, y) ==
  LET p == SubDigits(x, y, 0, 0)
  IN  [value |-> <<p[8], p[7], p[6], p[5], p[4], p[3], p[2], p[1]>>, overflow |-> p[9] = 1]

\* the digits of x + y from the digit k on, least significant first, then the carry
RECURSIVE AddDigits(_, _, _, _)
AddDigits(x, y, k, carry) ==
  IF k > 7 THEN <<carry>>
  ELSE LET d == Digit(x, k) + Digit(y, k) + carry
       IN  <<d % 256>> \o AddDigits(x, y, k + 1, d \div 256)

\* x + y on u64, with the overflow flag
overflowing_add(x, y) ==
  LET p == AddDigits(x, y, 0, 0)
  IN  [value |-> <<p[8], p[7], p[6], p[5], p[4], p[3], p[2], p[1]>>, overflow |-> p[9] = 1]

\* index_to_level_position without the + 1
index_to_level_position_u64_ZeroBased(index) ==
  Ok(<<(u64_BITS - 1) - leading_zeros(index),
       overflowing_sub(index, ShlOne((u64_BITS - 1) - leading_zeros(index))).value>>)

\* index_to_level_position on a u64 index > 0
index_to_level_position_u64(index) ==
  IF index = U64(1) THEN Ok(<<0, U64(1)>>)
  ELSE LET level == (u64_BITS - 1) - leading_zeros(index)
           difference == overflowing_sub(index, ShlOne(level))
           position == overflowing_add(difference.value, U64(1))
       IN  IF level < 0 \/ difference.overflow \/ position.overflow
           THEN Err("panic: arithmetic overflow")
           ELSE Ok(<<level, position.value>>)

\* the indices looked at: around every power of two, the small ones and u64::MAX
IndexInputs ==
  {ShlOne(e) : e \in 0..(u64_BITS - 1)}
  \cup {overflowing_sub(ShlOne(e), U64(1)).value : e \in 1..(u64_BITS - 1)}
  \cup {overflowing_add(ShlOne(e), U64(1)).value : e \in 0..(u64_BITS - 1)}
  \cup {U64(n) : n \in 1..16}
  \cup {<<255, 255, 255, 255, 255, 255, 255, 255>>}

IndexInit ==
  /\ IndexOthersIdle
  /\ ix_index \in IndexInputs
  /\ ix_out = None

IndexLocate ==
  /\ ~ix_out.some
  /\ ix_out' = Some(index_to_level_position_u64(ix_index))
  /\ UNCHANGED <<ix_index, ix_others>>

IndexNext == IndexLocate

SpecIndex == IndexInit /\ [][IndexNext]_vars

\* C21: index_to_level_position maps every serial index i >= 1, up to u64::MAX,
\* to (level, position) with level = floor(log2 i) and position = i - 2^level + 1,
\* so 1 <= position <= 2^level; distinct indices give distinct pairs; nothing
\* overflows.
C21_LevelAndPositionOfEveryIndex ==
  ix_out.some =>
    /\ ix_out.value.ok
    /\ LET level == ix_out.value.value[1]
           position == ix_out.value.value[2]
           back == overflowing_add(overflowing_sub(position, U64(1)).value, ShlOne(level))
       IN  /\ level \in 0..(u64_BITS - 1)
           /\ Shr(ix_index, level) = U64(1)
           /\ ~U64Less(position, U64(1))
           /\ ~U64Less(ShlOne(level), position)
           /\ ~back.overflow
           /\ back.value = ix_index
    /\ \A other \in IndexInputs \ {ix_index} :
         index_to_level_position_u64(other) # ix_out.value

C21_Witness ==
  /\ ix_index = <<255, 255, 255, 255, 255, 255, 255, 255>>
  /\ ix_out = Some(Ok(<<63, <<128, 0, 0, 0, 0, 0, 0, 0>>>>))

(***************************************************************************)
(* The cache create_cache builds over the perfect tree.                    *)
(***************************************************************************)
\* the cache holds the min(limit, 2^h - 1) nodes of the smallest serial indices,
\* as the storage holds them
CacheIsTop(cache, limit) ==
  LET n == Min(limit, Pow2(pt_h) - 1)
  IN  /\ MapLen(cache) = n
      /\ MapLen(cache) <= limit
      /\ {cache[p].index : p \in DOMAIN cache} = 1..n
      /\ \A p \in DOMAIN cache : p \in DOMAIN kvs /\ cache[p] = kvs[p]

\* C22: create_cache with a limit L >= 1 on the perfect tree of height h returns,
\* without popping from an empty queue, a cache of exactly min(L, 2^h - 1) nodes,
\* never more than L: the nodes with the serial indices 1..min(L, 2^h - 1).
C22_CacheHoldsTheTopNodes ==
  (pt_pc = "opened" /\ get_last.cut = "hashtree-file") =>
    /\ tree.ok
    /\ CacheIsTop(tree.value.cache, Pow2(get_last.level))
    /\ \A limit \in 1..MaxCacheLimit :
         LET cache == create_cache(kvs, tree.value.height, tree.value.root, limit)
         IN  cache.ok /\ CacheIsTop(cache.value, limit)

C22_Witness ==
  /\ pt_pc = "opened"
  /\ get_last.cut = "hashtree-file"
  /\ pt_h = 4
  /\ get_last.level = 2
  /\ DOMAIN tree.value.cache = {p \in DOMAIN kvs : kvs[p].index \in 1..4 /\ p # 1}
  /\ MapLen(create_cache(kvs, 4, tree.value.root, 17).value) = 15

(***************************************************************************)
(* src/hashtree/binary.rs: the Cache under the calls read_node and         *)
(* write_node make, over the nodes of a tree of four leaves.  A position    *)
(* keeps its range, as it does in the file; the hash and the data at a     *)
(* position change with the updates.                                       *)
(***************************************************************************)
\* the leaves of the tree: leaf 0 in both of its versions, then the leaves 1..3
CacheLeaves ==
  {ANode_new_leaf(0, 1, data) : data \in Payloads}
  \cup {ANode_new_leaf(1, 2, <<>>), ANode_new_leaf(2, 4, <<>>), ANode_new_leaf(3, 5, <<>>)}

NodesAt(S, position) == {node \in S : node.position = position}

\* the branches over them
CacheLowBranches ==
  {ANode_new_internal(3, left, right) :
     left \in NodesAt(CacheLeaves, 1), right \in NodesAt(CacheLeaves, 2)}
  \cup {ANode_new_internal(6, left, right) :
          left \in NodesAt(CacheLeaves, 4), right \in NodesAt(CacheLeaves, 5)}

CacheNodes ==
  CacheLeaves \cup CacheLowBranches
  \cup {ANode_new_internal(7, left, right) :
          left \in NodesAt(CacheLowBranches, 3), right \in NodesAt(CacheLowBranches, 6)}

CacheInit ==
  /\ CacheOthersIdle
  /\ ch_cache \in {Cache_new(limit) : limit \in CacheLimits}
  /\ ch_last = [op |-> "none"]

\* read_node: Cache::get, and Cache::offer of the node read on a miss
CacheRead(node) ==
  /\ IF Cache_get(ch_cache, node.position).some
     THEN ch_cache' = ch_cache
     ELSE \E r \in Cache_offer(ch_cache, node) : ch_cache' = r.c
  /\ ch_last' = [op |-> "read_node", node |-> node, before |-> ch_cache.cache,
                 hit |-> Cache_get(ch_cache, node.position).some]
  /\ UNCHANGED ch_others

\* write_node: Cache::replace of the node written
CacheWrite(node) ==
  /\ \E r \in Cache_replace(ch_cache, node) : ch_cache' = r.c
  /\ ch_last' = [op |-> "write_node", node |-> node, before |-> ch_cache.cache, hit |-> FALSE]
  /\ UNCHANGED ch_others

CacheNext ==
  \/ \E node \in CacheNodes : CacheRead(node)
  \/ \E node \in CacheNodes : CacheWrite(node)

SpecCache == CacheInit /\ [][CacheNext]_vars

\* the nodes the last call turned away: the ones it evicted, and the one it was
\* given when that one is not in the cache afterwards
TurnedAway ==
  {ch_last.before[q] : q \in (DOMAIN ch_last.before) \ (DOMAIN ch_cache.cache)}
  \cup (IF ch_last.node.position \in DOMAIN ch_cache.cache THEN {} ELSE {ch_last.node})

\* C23: the Cache holds at most `limit` nodes after every offer and replace, and a
\* node is evicted or rejected only when no node left in the cache has a strictly
\* lower level.
C23_CacheKeepsTheHigherLevels ==
  /\ MapLen(ch_cache.cache) <= ch_cache.limit
  /\ ch_last.op # "none" =>
       \A gone \in TurnedAway : \A q \in DOMAIN ch_cache.cache :
         ANode_level(ch_cache.cache[q]) >= ANode_level(gone)

C23_Witness ==
  /\ ch_last.op = "read_node"
  /\ ch_cache.limit = 2
  /\ MapLen(ch_last.before) = 2
  /\ ANode_level(ch_last.node) = 2
  /\ ch_last.node.position \in DOMAIN ch_cache.cache
  /\ \E gone \in TurnedAway : ANode_level(gone) = 0

(***************************************************************************)
(* The sequential file as an array of records.                             *)
(***************************************************************************)
\* C24: after any sequence of clear, append(n), prepare(n) and get calls, with n
\* not below the number of records, the file of SeqFileCUT is a dense array: it is
\* 8 * count bytes long (count the n written up to), its i-th record is values(i),
\* and the assertion of get(i) holds for every 1 <= i <= count.
C24_SeqFileIsADenseArray ==
  sf_pc \in {"open", "panicked"} =>
    /\ \A i \in 1..Len(sf_file) : sf_file[i] = values(i)
    /\ (sf_pc = "open" /\ get_last.cut = "seqfile-file" /\ get_last.op \in {"prepare", "append"})
         => Len(sf_file) = get_last.n
    /\ (get_last.cut = "seqfile-file" /\ get_last.op = "get" /\ get_last.i \in 1..Len(sf_file))
         => get_last.outcome = "ok"

(***************************************************************************)
(* Serializable::write of the two Node types and of MetaInfo: the bytes    *)
(* put into the sink, and the size returned.                               *)
(***************************************************************************)
\* write_u32::<LittleEndian>
u32_to_le_bytes(n) ==
  <<n % 256, (n \div 256) % 256, (n \div 65536) % 256, (n \div 16777216) % 256>>

\* Hash::as_bytes: the OUT_LEN bytes of a digest
Hash_as_bytes(hash) == [k \in 1..OUT_LEN |-> <<hash, k>>]

\* write_u64::<LittleEndian> of a position
PositionBytes(position) ==
  IF position = U64_MAX THEN <<255, 255, 255, 255, 255, 255, 255, 255>>
  ELSE to_le_bytes(U64(position))

\* rust/src/hashtree/binary.rs: Serializable::write for Node
Node_write(node) ==
  LET head == to_le_bytes(U64(node.index)) \o Hash_as_bytes(node.hash)
              \o <<IF Node_is_leaf(node) THEN 1 ELSE 0>>
  IN  IF node.kind.tag = "Leaf"
      THEN [bytes |-> head \o u32_to_le_bytes(Len(node.kind.data)) \o node.kind.data,
            ret |-> 8 + OUT_LEN + 1 + (4 + Len(node.kind.data))]
      ELSE [bytes |-> head \o PositionBytes(node.kind.left) \o PositionBytes(node.kind.right),
            ret |-> 8 + OUT_LEN + 1 + (8 + 8)]

\* rust/src/hashtree/binary.rs: Serializable::write for MetaInfo
MetaInfo_write(meta) == [bytes |-> MetaInfo_bytes(meta), ret |-> MetaInfo_write_size]

\* src/hashtree/binary.rs: Serializable::write for Node; the leaf's data goes out
\* in a buffer of MAX_DATA_SIZE bytes
ANode_write_bytes(node) ==
  LET head == Hash_as_bytes(node.hash) \o to_le_bytes(U64(node.range[1]))
              \o to_le_bytes(U64(node.range[2]))
  IN  IF node.kind.tag = "Leaf"
      THEN [bytes |-> head \o u32_to_le_bytes(Len(node.kind.data))
                      \o [k \in 1..MAX_DATA_SIZE |->
                            IF k <= Len(node.kind.data) THEN node.kind.data[k] ELSE 0],
            ret |-> OUT_LEN + 16 + (4 + MAX_DATA_SIZE)]
      ELSE [bytes |-> head \o to_le_bytes(U64(node.kind.left))
                      \o to_le_bytes(U64(node.kind.right)),
            ret |-> OUT_LEN + 16 + (8 + 8)]

\* the data of the leaves: every sequence of up to MaxDataLen bytes out of {0, 255}
LeafData == UNION {[1..n -> {0, 255}] : n \in 0..MaxDataLen}

\* the values handed to write
Serializables ==
  {[type |-> "Node", value |-> Node_new_leaf(position, position - 1, data)] :
     position \in 2..3, data \in LeafData}
  \cup {[type |-> "Node",
         value |-> Node_new_internal(2, 1, combine(blake3_hash(<<>>), blake3_hash(<<>>)),
                                     left, right)] :
          left \in {3, U64_MAX}, right \in {4, U64_MAX}}
  \cup {[type |-> "MetaInfo", value |-> [root |-> position, height |-> height]] :
          position \in {0, 2}, height \in 0..MaxHeight}
  \cup {[type |-> "ANode", value |-> ANode_new_leaf(id, 16, data)] :
          id \in 0..1, data \in LeafData}
  \cup {[type |-> "ANode",
         value |-> ANode_new_internal(2112, ANode_new_leaf(0, 16, left),
                                      ANode_new_leaf(1, 1076, <<>>))] :
          left \in LeafData}

SerialInit ==
  /\ SerialOthersIdle
  /\ sr_item \in Serializables
  /\ sr_out = None

\* value.write(&mut sink)
SerialWrite ==
  /\ ~sr_out.some
  /\ sr_out' = Some(CASE sr_item.type = "Node" -> Node_write(sr_item.value)
                      [] sr_item.type = "MetaInfo" -> MetaInfo_write(sr_item.value)
                      [] sr_item.type = "ANode" -> ANode_write_bytes(sr_item.value))
  /\ UNCHANGED <<sr_item, sr_others>>

SerialNext == SerialWrite

SpecSerial == SerialInit /\ [][SerialNext]_vars

\* C25: write(sink) returns exactly the number of bytes it wrote to the sink, for
\* leaf nodes, branch nodes and the MetaInfo record.
C25_WriteReturnsTheBytesWritten ==
  sr_out.some => sr_out.value.ret = Len(sr_out.value.bytes)

(***************************************************************************)
(* The positions MemKVS hands out while the perfect tree is created.       *)
(***************************************************************************)
\* the positions whose record a step changes
Rewritten == {p \in DOMAIN kvs : p \in DOMAIN kvs' /\ kvs'[p] # kvs[p]}

\* C26: from an empty MemKVS, with every put at the position first() or the put
\* before it returned, the positions returned are 2, 3, 4, ..., one more each
\* time, and no earlier record is overwritten; a put at a used position replaces
\* that record alone and returns the same next position, so position_root =
\* position_root2 in create.
C26_PositionsAreMonotoneKeys ==
  [][/\ DOMAIN kvs' = 1..MapLen(kvs')
     /\ MapLen(kvs') \in {MapLen(kvs), MapLen(kvs) + 1}
     /\ MapLen(kvs') = MapLen(kvs) + 1 =>
          /\ Rewritten = {}
          /\ pt_pc = "write" => /\ pt_current = MapLen(kvs) + 1
                                /\ pt_pc' = "write" => pt_current' = pt_current + 1
     /\ MapLen(kvs') = MapLen(kvs) => Cardinality(Rewritten) <= 1
     /\ pt_root'[1] = pt_root'[2]
     /\ pt_pc = "start" /\ pt_pc' = "write" =>
          /\ MemKVS_first(kvs) = [node |-> None, position |-> 1]
          /\ pt_root' = <<2, 2>>
          /\ MemKVS_put(kvs', 1, kvs'[1]) = [kvs |-> kvs', position |-> 2]]_vars

C26_Witness ==
  /\ pt_pc = "created"
  /\ pt_h = 3
  /\ DOMAIN kvs = 1..8
  /\ pt_root = <<2, 2>>
  /\ pt_current = 9

(***************************************************************************)
(* The order in which bench_level_db stores the hashes.                    *)
(***************************************************************************)
\* the interior node the loop of bench_level_db is about to build
NextInode == inodes_introduced(ldb_i)[ldb_j + 1]

\* C27: with the entries appended in the order 1, 2, 3, ..., when the interior
\* node (i, j) of entry i is computed, the hash of its left child
\* (i - 2^(j-1), j-1) has been stored by an earlier append and that of its right
\* child (i, j-1) earlier in the same append: the lookup of the left hash never
\* misses.
C27_ChildrenAreStoredBeforeParents ==
  /\ ldb_pc # "panicked"
  /\ ldb_pc = "inodes" =>
       /\ LeftKey(NextInode) = HashKey(ldb_i - Pow2(NextInode.j - 1), NextInode.j - 1)
       /\ LeftKey(NextInode) \in DOMAIN ldb
       /\ ldb_i - Pow2(NextInode.j - 1) \in 1..(ldb_i - 1)
       /\ HashKey(ldb_i, NextInode.j - 1) \in DOMAIN ldb
       /\ ldb_right = ldb[HashKey(ldb_i, NextInode.j - 1)]
       /\ HashKey(ldb_i, NextInode.j) \notin DOMAIN ldb
       /\ \A i \in ldb_i..(MaxBench + 1) : ValKey(i) \in DOMAIN ldb <=> i = ldb_i

C27_Witness ==
  /\ ldb_pc = "inodes"
  /\ ldb_i = 8
  /\ ldb_j = 2
  /\ LeftKey(NextInode) = HashKey(4, 2)
  /\ HashKey(4, 2) \in DOMAIN ldb
  /\ HashKey(8, 2) \in DOMAIN ldb

(***************************************************************************)
(* The tree the file of the appendable BinaryHashTree holds.               *)
(***************************************************************************)
\* a node record starts at `position` of the file
IsStored(position) == position \in DOMAIN bt_file /\ bt_file[position].tag = "node"

\* the node stored at `position`
Stored(position) == ANode_read(bt_file[position], position)

\* the smallest power of two that is at least m
RECURSIVE PowerOfTwoFrom(_, _)
PowerOfTwoFrom(m, power) == IF power >= m THEN power ELSE PowerOfTwoFrom(m, 2 * power)

\* the subtree stored below `position` is a Merkle tree whose leaves from the id
\* m on are empty; `depth` bounds the walk
RECURSIVE IsMerkle(_, _, _)
IsMerkle(position, m, depth) ==
  /\ IsStored(position)
  /\ LET node == Stored(position)
     IN  IF node.kind.tag = "Leaf"
         THEN /\ node.range[1] = node.range[2]
              /\ node.range[1] >= m => node.kind.data = <<>>
         ELSE /\ depth > 0
              /\ IsStored(node.kind.left)
              /\ IsStored(node.kind.right)
              /\ LET left == Stored(node.kind.left)
                     right == Stored(node.kind.right)
                 IN  /\ node.range[1] = left.range[1]
                     /\ left.range[2] + 1 = right.range[1]
                     /\ right.range[2] = node.range[2]
                     /\ node.hash = ANode_combine(left.hash, right.hash)
              /\ IsMerkle(node.kind.left, m, depth - 1)
              /\ IsMerkle(node.kind.right, m, depth - 1)

\* C28: after any sequence of successful appends, with size m >= 1, the root covers
\* the leaf ids 0..2^p - 1 for the smallest 2^p >= m, every branch covers the
\* ranges of its left and right child one after the other and stores
\* combine(left.hash, right.hash) of the children stored now, and every leaf with
\* an id >= m holds empty data.
C28_FileHoldsAMerkleTree ==
  (~bt_failed /\ ~Panicked /\ bt_size >= 1) =>
    /\ bt_root_position.some
    /\ IsStored(bt_root_position.value)
    /\ Stored(bt_root_position.value).range = <<0, PowerOfTwoFrom(bt_size, 1) - 1>>
    /\ IsMerkle(bt_root_position.value, bt_size, MaxAppends)

C28_Witness ==
  /\ ~bt_failed
  /\ ~bt_reopened
  /\ bt_size = 3
  /\ bt_appended = <<<<1>>, <<>>, <<1>>>>
  /\ Stored(bt_root_position.value).range = <<0, 3>>
  /\ Stored(Stored(bt_root_position.value).kind.right).hash
       = ANode_combine(blake3_hash(<<1>>), blake3_hash(<<>>))

\* C29: between any two operations every node held in the cache equals, in hash,
\* range and kind, the node the file stores at the same position, although update
\* rewrites leaves and branches in place: a read served from the cache is never
\* stale.
C29_CacheAgreesWithTheFile ==
  ~Panicked =>
    /\ \A position \in DOMAIN bt_cache.cache :
         /\ IsStored(position)
         /\ bt_cache.cache[position] = Stored(position)
    /\ \A position \in DOMAIN bt_file :
         IsStored(position) =>
           \A o \in read_node(St(-1), position) : o.ok /\ o.val = Stored(position)

C29_Witness ==
  /\ ~bt_failed
  /\ bt_size = 4
  /\ bt_last.op = "append"
  /\ bt_last.before = 3
  /\ bt_cache.limit = 2
  /\ MapLen(bt_cache.cache) = 2
  /\ bt_root_position.value \in DOMAIN bt_cache.cache
  /\ bt_cache.cache[bt_root_position.value].hash
       = ANode_combine(Stored(Stored(bt_root_position.value).kind.left).hash,
                       Stored(Stored(bt_root_position.value).kind.right).hash)

\* ---------------------------------------------------------------------------
\* The prove benchmark: measure_the_prove_time_relative_to_the_position
\* ---------------------------------------------------------------------------

\* the largest max_n of a prove benchmark
MaxProveN == 3

\* max_trials of a prove benchmark
MaxTrials == 4

\* stability_threshold = 0.05, in hundredths
cv_threshold == 5

\* elapse of one cut.prove(other), in milliseconds
Elapses == {10, 30}

\* data.iter().sum() of the samples' times
RECURSIVE SumOfTimes(_)
SumOfTimes(ys) ==
  IF ys = <<>> THEN 0 ELSE Head(ys).y + SumOfTimes(Tail(ys))

\* the sum of the squared times
RECURSIVE SumOfSquares(_)
SumOfSquares(ys) ==
  IF ys = <<>> THEN 0 ELSE Head(ys).y * Head(ys).y + SumOfSquares(Tail(ys))

\* Stat::from_vec(ys).cv() < cv, in exact arithmetic: with S the sum and Q the
\* sum of squares of count samples, mean = S / count and the population
\* variance is (count * Q - S * S) / count^2, so std_dev / mean < cv / 100 is
\* 10000 * (count * Q - S * S) < cv * cv * S * S; a mean of 0 gives NaN, which
\* is below nothing.
Stat_cv_below(ys, cv) ==
  LET count == Len(ys)
      S == SumOfTimes(ys)
      Q == SumOfSquares(ys)
  IN  IF S = 0 THEN FALSE
      ELSE 10000 * (count * Q - S * S) < cv * cv * S * S

\* XYReport::add: data_set.entry(x).or_default().append(vec![y])
XYReport_add(data_set, x, sample) ==
  [k \in DOMAIN data_set \cup {x} |->
     IF k = x
     THEN (IF x \in DOMAIN data_set THEN data_set[x] ELSE <<>>) \o <<sample>>
     ELSE data_set[k]]

\* XYReport::is_cv_sufficient
is_cv_sufficient(data_set, x, cv) ==
  IF x \in DOMAIN data_set
  THEN IF Len(data_set[x]) <= 2 THEN FALSE ELSE Stat_cv_below(data_set[x], cv)
  ELSE FALSE

\* filter_cv_sufficient
filter_cv_sufficient(gauge, ss, cv) ==
  {i \in gauge : ~is_cv_sufficient(ss, i, cv)}

\* for i in gauge.iter().cloned(): prove point i and record its time under the
\* distance max_n - i + 1
RECURSIVE ProveAll(_, _, _, _)
ProveAll(time_complexity, gauge, elapse, max_n) ==
  IF gauge = {} THEN time_complexity
  ELSE LET i == CHOOSE p \in gauge : TRUE
       IN  ProveAll(XYReport_add(time_complexity, max_n - i + 1,
                                 [y |-> elapse[i], point |-> i]),
                    gauge \ {i}, elapse, max_n)

\* the elements of a sequence
Elements(seq) == {seq[k] : k \in DOMAIN seq}

ProveInit ==
  /\ ProveOthersIdle
  /\ pb_max_n \in 1..MaxProveN
  /\ pb_min_trials \in 1..MaxTrials
  /\ LET gauge == Case_gauge("WorstCase", pb_max_n)
     IN  IF gauge.ok
         THEN pb_gauge = Elements(gauge.value) /\ pb_pc = "running"
         ELSE pb_gauge = {} /\ pb_pc = "done"
  /\ pb_time_complexity = <<>>
  /\ pb_trials = 0
  /\ pb_removed = {}

\* one pass of `for trials in 0..self.max_trials`
ProveTrial ==
  /\ pb_pc = "running"
  /\ pb_trials < MaxTrials
  /\ \E elapse \in [pb_gauge -> Elapses], expired \in BOOLEAN :
       LET time_complexity == ProveAll(pb_time_complexity, pb_gauge, elapse, pb_max_n)
           gauge == IF pb_trials + 1 >= pb_min_trials
                    THEN filter_cv_sufficient(pb_gauge, time_complexity, cv_threshold)
                    ELSE pb_gauge
       IN  /\ pb_time_complexity' = time_complexity
           /\ pb_gauge' = gauge
           /\ pb_removed' = pb_gauge \ gauge
           /\ pb_trials' = pb_trials + 1
           /\ pb_pc' = IF \/ (pb_trials + 1 >= pb_min_trials /\ gauge = {})
                          \/ expired
                          \/ pb_trials + 1 = MaxTrials
                       THEN "done" ELSE "running"
  /\ UNCHANGED <<pb_max_n, pb_min_trials, pb_others>>

ProveNext == ProveTrial

SpecProve == ProveInit /\ [][ProveNext]_vars

\* the samples measured at point i, wherever the report keeps them
SamplesOf(i) ==
  IF pb_max_n - i + 1 \in DOMAIN pb_time_complexity
  THEN SelectSeq(pb_time_complexity[pb_max_n - i + 1], LAMBDA s : s.point = i)
  ELSE <<>>

\* C30: a gauge point leaves the set of points still being measured only after
\* at least min_trials trials, and only when the samples recorded for that same
\* point number more than two and have a coefficient of variation below the
\* threshold; the samples consulted for it are never those of another point.
C30_PointsLeaveOnTheirOwnSamples ==
  \A i \in pb_removed :
    /\ pb_trials >= pb_min_trials
    /\ Len(SamplesOf(i)) > 2
    /\ Stat_cv_below(SamplesOf(i), cv_threshold)
    /\ i \in DOMAIN pb_time_complexity
         => \A k \in DOMAIN pb_time_complexity[i] : pb_time_complexity[i][k].point = i

====
